---- MODULE Spec2Model ----
(***************************************************************************)
(* Model of the homehub heating controller:                                *)
(*   - schedule_manager.py : TimeBlock, Schedule, ModeManager,             *)
(*                           ScheduleManager                               *)
(*   - heating_control.py  : PIDController, HeatingZone, HeatingControl    *)
(*   - heating_zone.py     : sensor-staleness and max-runtime predicates   *)
(* Temperatures are integers in tenths of a degree Celsius.  Schedule time *)
(* is an integer number of hours since a Monday 00:00; controller time is  *)
(* an integer number of minutes since process start.                       *)
(***************************************************************************)
EXTENDS Integers, Sequences, FiniteSets, TLC

\* Python's None: as an optional number (every real temperature and time is
\* >= 0) and as an optional OperatingMode
None == -1
NoMode == "none"

(***************************************************************************)
(* schedule_manager.py                                                     *)
(***************************************************************************)

\* OperatingMode (enum values are the persisted strings)
AUTO     == "auto"
COMFORT  == "comfort"
MANUAL   == "manual"
AWAY     == "away"
VACATION == "vacation"
OFF      == "off"
BOOST    == "boost"
OperatingMode == {AUTO, COMFORT, MANUAL, AWAY, VACATION, OFF, BOOST}

TimeBlock(start, end, setpoint) ==
    [start_time |-> start, end_time |-> end, setpoint |-> setpoint]
Schedules ==
    [ground_floor |->
        [weekday_blocks |-> << TimeBlock(6, 22, 210), TimeBlock(22, 6, 180) >>,
         weekend_blocks |-> << TimeBlock(8, 23, 210) >>]]
HasSchedule(z) == z \in DOMAIN Schedules

\* scheduling config: comfort_offset_celsius, away_offset_celsius,
\* vacation_setpoint, boost_default_duration_hours (tenths of a degree, hours)
comfort_offset == 10
away_offset == -30
vacation_setpoint == 100
default_boost_duration_hours == 2

\* Bounds of the schedule-manager model: the clock runs StartHour ..
\* StartHour + MaxSchedHours (117 is a Friday 21:00, so the evaluated times
\* cross two weekday blocks and a weekend gap without block)
StartHour == 117
MaxSchedHours == 2
ManualSetpoints == {None, 240}
BoostDurations == {None, 0, 1}
EvalTimes == StartHour .. (StartHour + MaxSchedHours + 2)
\* the zone sets a ScheduleManager is configured with
SchedConfigs == {{"ground_floor"}, {"attic"}}

VARIABLES
    sched_now,      \* datetime.now(), hours
    enabled,        \* ScheduleManager.enabled
    mode_managers,  \* ScheduleManager.mode_managers: zone -> ModeManager state
    store,          \* persistence file: zone -> persisted record, or NoRecord
    store_file,     \* the file itself: "ok", "unreadable" (not JSON) or
                    \* "readonly" (open(.., 'w') fails)
    persisted,      \* history: zone -> the ModeManager state of the last
                    \* persist_state that wrote the zone's record
    ev,             \* the last ScheduleManager call and what it returned
    calc,           \* the last call of a TimeBlock, Schedule or controller
                    \* method made on its own: method, arguments, the
                    \* controller object and the result
    race            \* a ModeManager used by two threads: the object, its
                    \* record in the file, and how far each call has got

sched_vars == << sched_now, enabled, mode_managers, store, store_file,
                 persisted, ev, calc, race >>

\* the state of the heating controller (heating_control.py)
VARIABLES
    now,              \* time.time(), minutes
    zones,            \* HeatingControl.zones: name -> HeatingZone state
    boiler_active,    \* HeatingControl.boiler_active
    boiler_on_time,   \* HeatingControl.boiler_on_time
    control_timer,    \* time at which the pending control_timer fires
    heartbeat_timer,  \* the Timer HeatingControl.heartbeat_timer refers to:
                      \* "none", or that Timer's state "pending" / "fired"
    hb_orphans,       \* pending heartbeat Timers no attribute refers to
    hb_inflight,      \* _send_heartbeat callbacks of fired Timers, by position
    hb_last_ping,     \* boiler_active when the newest ping was published
    heating_mode,     \* the mode of the last heating/mode/set message
    runtime_log,      \* the "Total runtime" of the last BOILER OFF log line
    tick,             \* what the last run of _run_control_loop did
    last              \* the last step taken

heat_vars == << now, zones, boiler_active, boiler_on_time, control_timer,
                heartbeat_timer, hb_orphans, hb_inflight, hb_last_ping,
                heating_mode, runtime_log, tick, last >>


\* datetime.weekday() and datetime.time() of an hour count
Weekday(dt) == (dt \div 24) % 7
TimeOfDay(dt) == dt % 24

\* no method called yet
NoCall == [fn |-> "none"]
NoRace == [fn |-> "none"]

\* TimeBlock.contains
\* (ContainsEndInclusive: the end of the block counted as inside)
ContainsEndInclusive(block, check_time) ==
    IF block.start_time <= block.end_time
    THEN block.start_time <= check_time /\ check_time <= block.end_time
    ELSE check_time >= block.start_time \/ check_time <= block.end_time
Contains(block, check_time) ==
    IF block.start_time <= block.end_time
    THEN block.start_time <= check_time /\ check_time < block.end_time
    ELSE check_time >= block.start_time \/ check_time < block.end_time

\* first block of the sequence that contains the time, or None
RECURSIVE FirstMatch(_, _, _)
FirstMatch(blocks, i, check_time) ==
    IF i > Len(blocks) THEN None
    ELSE IF Contains(blocks[i], check_time) THEN blocks[i].setpoint
    ELSE FirstMatch(blocks, i + 1, check_time)

\* Schedule.get_setpoint_for_time
\* (GetSetpointForTimeSundayOnly: Saturday taken for a weekday)
GetSetpointForTimeSundayOnly(schedule, dt) ==
    LET is_weekend == Weekday(dt) >= 6
        blocks == IF is_weekend THEN schedule.weekend_blocks
                  ELSE schedule.weekday_blocks
    IN  FirstMatch(blocks, 1, TimeOfDay(dt))
GetSetpointForTime(schedule, dt) ==
    LET is_weekend == Weekday(dt) >= 5
        blocks == IF is_weekend THEN schedule.weekend_blocks
                  ELSE schedule.weekday_blocks
    IN  FirstMatch(blocks, 1, TimeOfDay(dt))

\* ModeManager.__init__ before load_state
NewModeManager(default_mode) ==
    [current_mode |-> default_mode, manual_setpoint |-> None,
     boost_expires_at |-> None, previous_mode |-> NoMode]

\* ModeManager.get_effective_setpoint, lines 177-178: the Boost expiry test
BoostExpired(m, current_time) ==
    /\ m.current_mode = BOOST
    /\ m.boost_expires_at # None
    /\ current_time >= m.boost_expires_at

\* the mode a Boost reverts to (line 186; line 184, restoring previous_mode,
\* is commented out in the source)
RevertRestoringPrevious(m) ==
    IF m.previous_mode # NoMode THEN m.previous_mode ELSE AUTO
RevertMode(m) == AUTO

\* ModeManager.get_effective_setpoint, lines 177-189: state after the expiry check
AfterExpiry(m, current_time) ==
    IF BoostExpired(m, current_time)
    THEN [m EXCEPT !.current_mode = RevertMode(m),
                   !.boost_expires_at = None,
                   !.manual_setpoint = None]
    ELSE m

\* ModeManager.get_effective_setpoint, lines 191-224: dispatch on the mode
\* (ModeSetpointSharedOffset: Away computed with Comfort's offset)
ModeSetpointSharedOffset(m, schedule, current_time) ==
    LET scheduled_setpoint == GetSetpointForTime(schedule, current_time) IN
    CASE m.current_mode = OFF      -> None
      [] m.current_mode = MANUAL   -> m.manual_setpoint
      [] m.current_mode = BOOST    -> m.manual_setpoint
      [] m.current_mode = VACATION -> vacation_setpoint
      [] m.current_mode \in {COMFORT, AWAY} ->
            IF scheduled_setpoint # None
            THEN scheduled_setpoint + comfort_offset ELSE None
      [] m.current_mode = AUTO     -> scheduled_setpoint
      [] OTHER -> None
ModeSetpoint(m, schedule, current_time) ==
    LET scheduled_setpoint == GetSetpointForTime(schedule, current_time) IN
    CASE m.current_mode = OFF      -> None
      [] m.current_mode = MANUAL   -> m.manual_setpoint
      [] m.current_mode = BOOST    -> m.manual_setpoint
      [] m.current_mode = VACATION -> vacation_setpoint
      [] m.current_mode = COMFORT  ->
            IF scheduled_setpoint # None
            THEN scheduled_setpoint + comfort_offset ELSE None
      [] m.current_mode = AWAY     ->
            IF scheduled_setpoint # None
            THEN scheduled_setpoint + away_offset ELSE None
      [] m.current_mode = AUTO     -> scheduled_setpoint
      [] OTHER -> None

\* datetime.isoformat() and datetime.fromisoformat(): the persisted text of
\* a time is its date and its hour, << days, hour >>; JSON null is << >>
IsoNull == << >>
IsoFormat(dt) == << dt \div 24, dt % 24 >>
ValidIso(text) == Len(text) = 2 /\ text[1] >= 0 /\ text[2] \in 0 .. 23
FromIsoFormat(text) == text[1] * 24 + text[2]

\* a zone without a record in the persistence file
NoRecord == [mode |-> NoMode, manual_setpoint |-> None,
             boost_expires_at |-> IsoNull, previous_mode |-> NoMode]

\* ModeManager.persist_state, lines 281-287: the record written for one zone
\* (PersistedRecordWithoutPrevious: previous_mode is not written)
PersistedRecordWithoutPrevious(m) ==
    [mode |-> m.current_mode,
     manual_setpoint |-> m.manual_setpoint,
     boost_expires_at |-> IF m.boost_expires_at # None
                          THEN IsoFormat(m.boost_expires_at) ELSE IsoNull,
     previous_mode |-> NoMode]
PersistedRecord(m) ==
    [mode |-> m.current_mode,
     manual_setpoint |-> m.manual_setpoint,
     boost_expires_at |-> IF m.boost_expires_at # None
                          THEN IsoFormat(m.boost_expires_at) ELSE IsoNull,
     previous_mode |-> IF m.previous_mode # NoMode
                       THEN m.previous_mode ELSE NoMode]

\* ModeManager.persist_state, lines 269-295: the file's content after the
\* call.  A file that does not parse is replaced by this zone's record
\* alone; a file that cannot be opened for writing is left as it is.
\* (PersistStateKeepingRecord: a record the file already holds for the zone
\* is not replaced)
PersistStateKeepingRecord(data, file, z, m) ==
    IF file = "readonly" THEN data
    ELSE IF data[z] # NoRecord THEN data
    ELSE [data EXCEPT ![z] = PersistedRecord(m)]
PersistState(data, file, z, m) ==
    IF file = "readonly" THEN data
    ELSE IF file = "unreadable"
    THEN [y \in DOMAIN data |-> IF y = z THEN PersistedRecord(m) ELSE NoRecord]
    ELSE [data EXCEPT ![z] = PersistedRecord(m)]
PersistFile(file) == IF file = "readonly" THEN file ELSE "ok"
Persisted(hist, file, z, m) ==
    IF file = "readonly" THEN hist
    ELSE IF file = "unreadable"
    THEN [y \in DOMAIN hist |->
             IF y = z THEN m
             ELSE [current_mode |-> NoMode, manual_setpoint |-> None,
                   boost_expires_at |-> None, previous_mode |-> NoMode]]
    ELSE [hist EXCEPT ![z] = m]

\* ModeManager.load_state, lines 297-328, applied to a ModeManager as
\* __init__ left it.  An exception anywhere in the try block is logged and
\* ends the restore where it was raised.
LoadMode(m, record) ==
    [m EXCEPT !.current_mode = record.mode,
              !.manual_setpoint = record.manual_setpoint]
LoadPreviousSkipped(m, record) == m
LoadPrevious(m, record) ==
    [m EXCEPT !.previous_mode = record.previous_mode]
LoadExpiry(m, record) ==
    IF record.boost_expires_at = IsoNull THEN m
    ELSE IF ~ValidIso(record.boost_expires_at) THEN m
    ELSE [m EXCEPT !.boost_expires_at = FromIsoFormat(record.boost_expires_at)]
LoadState(m, record, file) ==
    IF file = "unreadable" THEN m
    ELSE IF record = NoRecord THEN m
    ELSE IF record.mode \notin OperatingMode THEN m
    ELSE IF record.previous_mode # NoMode
            /\ record.previous_mode \notin OperatingMode
    THEN LoadMode(m, record)
    ELSE LoadExpiry(LoadPrevious(LoadMode(m, record), record), record)

\* which way load_state ended
LoadOutcome(record, file) ==
    IF file = "unreadable" THEN "failed"
    ELSE IF record = NoRecord THEN "no_record"
    ELSE IF \/ record.mode \notin OperatingMode
            \/ record.previous_mode \notin OperatingMode \cup {NoMode}
            \/ (record.boost_expires_at # IsoNull
                  /\ ~ValidIso(record.boost_expires_at))
    THEN "failed"
    ELSE "loaded"

\* ModeManager.set_mode, lines 241-261
SetMode(m, mode, manual_setpoint, boost_duration_hours, current_time) ==
    IF mode = BOOST
    THEN [current_mode |-> mode,
          previous_mode |-> m.current_mode,
          boost_expires_at |->
              current_time + (IF boost_duration_hours # None
                                 /\ boost_duration_hours # 0
                              THEN boost_duration_hours ELSE 2),
          manual_setpoint |-> manual_setpoint]
    ELSE IF mode = MANUAL
    THEN [current_mode |-> mode, manual_setpoint |-> manual_setpoint,
          boost_expires_at |-> None, previous_mode |-> NoMode]
    ELSE [current_mode |-> mode, manual_setpoint |-> None,
          boost_expires_at |-> None, previous_mode |-> NoMode]

\* ScheduleManager.get_effective_setpoint, lines 431-440: zone without schedule
\* (NoScheduleSetpointManualOnly: the Vacation branch left out)
NoScheduleSetpointManualOnly(m) ==
    CASE m.current_mode = MANUAL   -> m.manual_setpoint
      [] m.current_mode = BOOST    -> m.manual_setpoint
      [] OTHER -> None
NoScheduleSetpoint(m) ==
    CASE m.current_mode = MANUAL   -> m.manual_setpoint
      [] m.current_mode = BOOST    -> m.manual_setpoint
      [] m.current_mode = VACATION -> vacation_setpoint
      [] OTHER -> None

\* ScheduleManager._load_schedules: the default mode of a zone
DefaultMode(z) == IF HasSchedule(z) THEN AUTO ELSE MANUAL

\* the record of a call: what was asked (op, zone, time, args), the
\* ModeManager state it found, the branch that answered ("disabled",
\* "no_schedule", "mode_manager"; for a load the way load_state ended) and
\* what came back
NoArgs == [mode |-> NoMode, manual_setpoint |-> None, boost_duration_hours |-> None]
Call(op, z, t, args, pre, via, ret) ==
    [op |-> op, zone |-> z, time |-> t, args |-> args, pre |-> pre,
     via |-> via, ret |-> ret]

\* nothing persisted by this program yet
NotPersisted == NewModeManager(NoMode)

\* the file when the process starts: it parses and can be written ("ok"),
\* it does not parse ("unreadable"), or it does not exist and cannot be
\* created ("readonly")
FileStates == {"ok", "unreadable", "readonly"}

\* what the persistence file may hold for a zone when the process starts:
\* nothing, or a record some earlier run or an editor left there
BadIso == << 0, 24 >>
FoundRecords ==
    { NoRecord,
      [mode |-> BOOST, manual_setpoint |-> 240,
       boost_expires_at |-> IsoNull, previous_mode |-> AUTO],
      [mode |-> COMFORT, manual_setpoint |-> 240,
       boost_expires_at |-> IsoNull, previous_mode |-> "bogus"],
      [mode |-> MANUAL, manual_setpoint |-> 240,
       boost_expires_at |-> BadIso, previous_mode |-> NoMode],
      [mode |-> "bogus", manual_setpoint |-> 240,
       boost_expires_at |-> IsoNull, previous_mode |-> NoMode] }

\* ScheduleManager._load_schedules, lines 364-406: one ModeManager per zone,
\* each constructed with its default mode and then load_state()
LoadSchedules(zs, data, file) ==
    [z \in zs |-> LoadState(NewModeManager(DefaultMode(z)), data[z], file)]

LoadCall(zs, data, file) ==
    LET z == CHOOSE y \in zs : TRUE IN
    Call("load", z, StartHour, NoArgs, NewModeManager(DefaultMode(z)),
         LoadOutcome(data[z], file), None)

ScheduleManagerInit ==
    /\ sched_now = StartHour
    /\ enabled \in BOOLEAN
    /\ \E zs \in SchedConfigs, r \in FoundRecords, f \in FileStates :
          /\ store_file = f
          /\ store = [z \in zs |-> IF f = "ok" THEN r ELSE NoRecord]
          /\ persisted = [z \in zs |-> NotPersisted]
          /\ mode_managers = LoadSchedules(zs, store, f)
          /\ ev = LoadCall(zs, store, f)
    /\ calc = NoCall
    /\ race = NoRace

\* ScheduleManager.get_effective_setpoint(zone_name, current_time)
GetEffectiveSetpoint(z, t) ==
    LET m == mode_managers[z] IN
    /\ IF ~enabled
       THEN /\ ev' = Call("get", z, t, NoArgs, m, "disabled", None)
            /\ UNCHANGED << mode_managers, store, store_file, persisted >>
       ELSE IF ~HasSchedule(z)
       THEN /\ ev' = Call("get", z, t, NoArgs, m, "no_schedule",
                           NoScheduleSetpoint(m))
            /\ UNCHANGED << mode_managers, store, store_file, persisted >>
       ELSE LET m2 == AfterExpiry(m, t) IN
            /\ mode_managers' = [mode_managers EXCEPT ![z] = m2]
            /\ IF BoostExpired(m, t)
               THEN /\ store' = PersistState(store, store_file, z, m2)
                    /\ store_file' = PersistFile(store_file)
                    /\ persisted' = Persisted(persisted, store_file, z, m2)
               ELSE UNCHANGED << store, store_file, persisted >>
            /\ ev' = Call("get", z, t, NoArgs, m, "mode_manager",
                           ModeSetpoint(m2, Schedules[z], t))
    /\ UNCHANGED << sched_now, enabled >>
    /\ UNCHANGED << calc, race >>
    /\ UNCHANGED heat_vars

\* ScheduleManager.set_zone_mode(zone_name, mode, manual_setpoint, boost_duration_hours)
SetZoneMode(z, mode, sp, d) ==
    LET m  == mode_managers[z]
        dd == IF d # None /\ d # 0 THEN d ELSE default_boost_duration_hours
        m2 == SetMode(m, mode, sp, dd, sched_now)
    IN  /\ mode_managers' = [mode_managers EXCEPT ![z] = m2]
        /\ store' = PersistState(store, store_file, z, m2)
        /\ store_file' = PersistFile(store_file)
        /\ persisted' = Persisted(persisted, store_file, z, m2)
        /\ ev' = Call("set", z, sched_now,
                      [mode |-> mode, manual_setpoint |-> sp,
                       boost_duration_hours |-> d],
                      m, "mode_manager", None)
        /\ UNCHANGED << sched_now, enabled >>
    /\ UNCHANGED << calc, race >>
    /\ UNCHANGED heat_vars

\* the process is restarted: a new ScheduleManager over the same file
Restart ==
    /\ mode_managers' = LoadSchedules(DOMAIN mode_managers, store, store_file)
    /\ ev' = [LoadCall(DOMAIN mode_managers, store, store_file)
                EXCEPT !.time = sched_now]
    /\ UNCHANGED << sched_now, enabled, store, store_file, persisted >>
    /\ UNCHANGED << calc, race >>
    /\ UNCHANGED heat_vars

\* the wall clock advances by one hour
SchedTick ==
    /\ sched_now < StartHour + MaxSchedHours
    /\ sched_now' = sched_now + 1
    /\ UNCHANGED << enabled, mode_managers, store, store_file, persisted, ev >>
    /\ UNCHANGED << calc, race >>
    /\ UNCHANGED heat_vars

SchedNext ==
    \/ \E z \in DOMAIN mode_managers, t \in EvalTimes : GetEffectiveSetpoint(z, t)
    \/ \E z \in DOMAIN mode_managers, mode \in OperatingMode,
          sp \in ManualSetpoints, d \in BoostDurations :
            /\ mode # BOOST => d = None
            /\ SetZoneMode(z, mode, sp, d)
    \/ Restart
    \/ SchedTick


(***************************************************************************)
(* heating_control.py, heating_zone.py                                     *)
(*                                                                         *)
(* Controller time `now` is in minutes.  Duty and PID output are in        *)
(* percent of the output span (output_limits (0, 1) is 0 .. 100).  Of a    *)
(* zone the model keeps every field the control decisions read; it leaves  *)
(* out what only feeds log lines and reports (thermal monitor, cycle       *)
(* counters, pump_off_time, pump_manual_override, window_open_time).  The  *)
(* samples of temp_history are sensor data: the model keeps the time of    *)
(* the newest sample and draws what detect_window_open computes from the   *)
(* samples as an input of the tick.                                        *)
(***************************************************************************)

\* the zones of the configuration, in the order of the config file
ZoneOrder == << "ground_floor", "first_floor" >>
NoZone == "no_zone"

\* zone config: default_setpoint, and the temperatures a sensor reports
default_setpoint == 200
Temps == {180, 200}
SetpointOverrides == {190}

\* zone config pid_kp, pid_ki, pid_kd, scaled to the model's units:
\* KP percent per tenth of a degree, KI percent per 1000 (tenth-degree x
\* centisecond), KD percent per (tenth-degree per centisecond)
KP == 2
KI == 0
KD == 0

\* HeatingZone.__init__: pump protection and deadband thresholds
pump_min_on_minutes == 10
pump_min_off_minutes == 10
pump_duty_on_threshold == 30
pump_duty_off_threshold == 5

\* heating_zone.py HeatingZone.__init__: safety thresholds
sensor_timeout_minutes == 20
max_runtime_hours == 6

\* control_interval_seconds of the config, in minutes
control_interval == 5

\* Bounds: the clock advances in steps of control_interval, at most
\* MaxSteps of them before and after one long idle period of LongWait minutes
MaxSteps == 2
LongWait == max_runtime_hours * 60
\* callbacks of heartbeat timers that may be in flight at once
MaxInFlight == 1

\* PIDController.__init__
NewPID(setpoint, t) ==
    [setpoint |-> setpoint, integral |-> 0, last_error |-> 0, last_time |-> t]

Max(a, b) == IF a >= b THEN a ELSE b
Min(a, b) == IF a <= b THEN a ELSE b

\* PIDController.update, line 65: the anti-windup bound of the integral
MaxIntegral == IF KI # 0 THEN (100 * 1000) \div (2 * KI) ELSE 100 * 1000

\* PIDController.update: the controller state after the call and the output
PIDUpdate(pid, measurement, current_time) ==
    LET dt0      == (current_time - pid.last_time) * 6000
        dt       == IF dt0 <= 0 THEN 1 ELSE dt0
        error    == pid.setpoint - measurement
        p_term   == KP * error
        integral == Max(-MaxIntegral, Min(MaxIntegral, pid.integral + error * dt))
        i_term   == (KI * integral) \div 1000
        d_term   == (KD * (error - pid.last_error)) \div dt
        output_raw == p_term + i_term + d_term
        output   == Max(0, Min(100, output_raw))
    IN  [pid |-> [pid EXCEPT !.integral = integral,
                             !.last_error = error,
                             !.last_time = current_time],
         output |-> output]

\* heating_control.py HeatingZone.__init__
NewZone(t) ==
    [current_temp |-> None,
     last_temp_update_time |-> None,
     setpoint |-> default_setpoint,
     window_open |-> FALSE,
     window_detection_enabled |-> TRUE,
     pid |-> NewPID(default_setpoint, t),
     pump_state |-> FALSE,
     pump_duty_cycle |-> 0,
     pump_on_time |-> None,
     pump_last_on_time |-> None,
     pump_last_off_time |-> None]

\* HeatingZone.update_temperature
UpdateTemperature(zone, temp, t) ==
    [zone EXCEPT !.current_temp = temp, !.last_temp_update_time = t]

\* what detect_window_open finds in temp_history (lines 388-430, 449):
\* too few samples, two samples with one timestamp (line 400 divides by
\* zero), a drop rate above a threshold, both rates below the stabilization
\* threshold, or neither
Rates == {"insufficient", "zero_division", "drop", "stable", "unsettled"}

\* the outcomes the samples of a zone can give: rates need two samples of
\* the last minute
RatesOf(zone, t) ==
    IF zone.current_temp # None /\ zone.last_temp_update_time = t
    THEN Rates ELSE {"insufficient"}

\* HeatingZone.detect_window_open: the zone after the call, the value
\* returned, and whether the call raised
DetectWindowOpen(zone, rates) ==
    IF ~zone.window_detection_enabled
    THEN [zone |-> [zone EXCEPT !.window_open = FALSE],
          result |-> FALSE, raised |-> FALSE]
    ELSE IF rates = "insufficient"
    THEN [zone |-> zone, result |-> FALSE, raised |-> FALSE]
    ELSE IF rates = "zero_division"
    THEN [zone |-> zone, result |-> FALSE, raised |-> TRUE]
    ELSE IF rates = "drop"
    THEN [zone |-> [zone EXCEPT !.window_open = TRUE],
          result |-> TRUE, raised |-> FALSE]
    ELSE IF zone.window_open /\ rates = "stable"
    THEN [zone |-> [zone EXCEPT !.window_open = FALSE],
          result |-> FALSE, raised |-> FALSE]
    ELSE [zone |-> zone, result |-> zone.window_open, raised |-> FALSE]

\* HeatingZone.calculate_control_output: the zone after the call and the duty
CalculateControlOutput(zone, t) ==
    IF zone.current_temp = None
    THEN [zone |-> zone, output |-> 0]
    ELSE LET r == PIDUpdate(zone.pid, zone.current_temp, t)
         IN  [zone |-> [zone EXCEPT !.pid = r.pid], output |-> r.output]

\* HeatingZone.set_pump_state
SetPumpState(zone, new_state, t) ==
    IF new_state # zone.pump_state
    THEN IF new_state
         THEN [zone EXCEPT !.pump_on_time = t, !.pump_last_on_time = t,
                           !.pump_state = TRUE]
         ELSE [zone EXCEPT !.pump_last_off_time = t, !.pump_on_time = None,
                           !.pump_state = FALSE]
    ELSE zone

\* HeatingZone.can_change_pump_state, lines 612-633: an OFF request while ON
CanTurnOffIgnoringMinOn(zone, t) == TRUE
CanTurnOff(zone, t) ==
    \/ zone.pump_last_on_time = None
    \/ (t - zone.pump_last_on_time) >= pump_min_on_minutes

\* HeatingZone.can_change_pump_state, lines 589-610: an ON request while OFF
\* (CanTurnOnAfterMinimum: allowed only once more than the minimum has passed;
\* CanTurnOnIgnoringMinOff: always allowed)
CanTurnOnIgnoringMinOff(zone, t) == TRUE
CanTurnOnAfterMinimum(zone, t) ==
    \/ zone.pump_last_off_time = None
    \/ (t - zone.pump_last_off_time) > pump_min_off_minutes
CanTurnOn(zone, t) ==
    \/ zone.pump_last_off_time = None
    \/ (t - zone.pump_last_off_time) >= pump_min_off_minutes

\* HeatingZone.can_change_pump_state
CanChangePumpState(zone, desired_state, t) ==
    IF desired_state /\ ~zone.pump_state THEN CanTurnOn(zone, t)
    ELSE IF ~desired_state /\ zone.pump_state THEN CanTurnOff(zone, t)
    ELSE TRUE

\* heating_zone.py HeatingZone.is_sensor_stale
IsSensorStale(zone, t) ==
    IF zone.last_temp_update_time = None THEN TRUE
    ELSE (t - zone.last_temp_update_time) > sensor_timeout_minutes

\* heating_zone.py HeatingZone.is_runtime_exceeded
IsRuntimeExceeded(zone, t) ==
    IF ~zone.pump_state \/ zone.pump_on_time = None THEN FALSE
    ELSE (t - zone.pump_on_time) >= max_runtime_hours * 60

\* _run_control_loop, lines 837-879: the pump state the duty asks for
\* ("ON", "OFF", or "keep" when desired_state stays None)
\* (DesiredStateOnAtThreshold: ON asked for at the ON threshold already)
DesiredStateOnAtThreshold(zone, duty_cycle) ==
    IF duty_cycle >= pump_duty_on_threshold
    THEN (IF ~zone.pump_state THEN "ON" ELSE "keep")
    ELSE IF duty_cycle < pump_duty_off_threshold
    THEN (IF zone.pump_state THEN "OFF" ELSE "keep")
    ELSE "keep"
DesiredState(zone, duty_cycle) ==
    IF duty_cycle > pump_duty_on_threshold
    THEN (IF ~zone.pump_state THEN "ON" ELSE "keep")
    ELSE IF duty_cycle < pump_duty_off_threshold
    THEN (IF zone.pump_state THEN "OFF" ELSE "keep")
    ELSE "keep"

\* _run_control_loop, line 904: whether the zone counts as requesting heat
ZoneActive(zone, duty_cycle) ==
    zone.pump_state \/ duty_cycle > pump_duty_on_threshold

\* the result of one iteration of the zone loop: the zone afterwards, whether
\* it counts as active, whether the iteration raised, and whether a pump
\* command was published
Iteration(zone, active, raised, published) ==
    [zone |-> zone, active |-> active, raised |-> raised,
     published |-> published]

\* HeatingControl._set_pump_state inside an iteration: Zone.set_pump_state,
\* then the publish, which raises when publish_fails
PumpCommand(zone, state, t, publish_fails, active) ==
    Iteration(SetPumpState(zone, state, t), active /\ ~publish_fails,
              publish_fails, ~publish_fails)

\* _run_control_loop, lines 881-906: the pump command of a zone whose duty
\* asks for desired, if the pump protection allows it, and the zone's vote
Actuate(zone, duty, desired, publish_fails, t) ==
    IF desired # "keep" /\ CanChangePumpState(zone, desired = "ON", t)
    THEN IF publish_fails
         THEN Iteration(SetPumpState(zone, desired = "ON", t), FALSE, TRUE, FALSE)
         ELSE Iteration(SetPumpState(zone, desired = "ON", t),
                        ZoneActive(SetPumpState(zone, desired = "ON", t), duty),
                        FALSE, TRUE)
    ELSE Iteration(zone, ZoneActive(zone, duty), FALSE, FALSE)

\* _run_control_loop, lines 833-879: the duty is stored and compared with
\* the deadband thresholds
Regulate(c, publish_fails, t) ==
    Actuate([c.zone EXCEPT !.pump_duty_cycle = c.output], c.output,
            DesiredState(c.zone, c.output), publish_fails, t)

\* _run_control_loop, lines 816-831: the outcome of detect_window_open; an
\* open window turns a running pump OFF and ends the iteration
AfterWindowCheck(w, publish_fails, t) ==
    IF w.raised THEN Iteration(w.zone, FALSE, TRUE, FALSE)
    ELSE IF w.result
    THEN (IF w.zone.pump_state
          THEN PumpCommand(w.zone, FALSE, t, publish_fails, FALSE)
          ELSE Iteration(w.zone, FALSE, FALSE, FALSE))
    ELSE Regulate(CalculateControlOutput(w.zone, t), publish_fails, t)

\* _run_control_loop, lines 813-906: the body of the loop for one zone
ProcessZone(zone, rates, publish_fails, t) ==
    AfterWindowCheck(DetectWindowOpen(zone, rates), publish_fails, t)

\* the configured zones in loop order
ConfiguredOrder(zs) ==
    LET Configured(z) == z \in DOMAIN zs IN SelectSeq(ZoneOrder, Configured)

\* _run_control_loop, lines 813-906: the loop over the zones from position i,
\* which ends at the first iteration that raises
RECURSIVE ZoneLoop(_, _, _, _, _, _)
ZoneLoop(acc, order, i, rates, faulty, t) ==
    IF i > Len(order) THEN acc
    ELSE LET z == order[i]
             r == ProcessZone(acc.zones[z], rates[z], faulty = z, t)
             acc2 == [zones |-> [acc.zones EXCEPT ![z] = r.zone],
                      any_zone_active |-> acc.any_zone_active \/ r.active,
                      raised |-> IF r.raised THEN z ELSE NoZone,
                      processed |-> IF r.raised THEN acc.processed
                                    ELSE acc.processed \cup {z},
                      published |-> IF r.published THEN acc.published \cup {z}
                                    ELSE acc.published]
         IN  IF r.raised THEN acc2
             ELSE ZoneLoop(acc2, order, i + 1, rates, faulty, t)

\* the fields of HeatingControl that _run_control_loop reads and writes
Controller(zs, ba, bot, ht, ping, rt, log) ==
    [zones |-> zs, boiler_active |-> ba, boiler_on_time |-> bot,
     heartbeat_timer |-> ht, hb_last_ping |-> ping, runtime_log |-> rt,
     tick |-> log]

\* HeatingControl._set_boiler_state with _start_heartbeat, _send_heartbeat
\* (called on the control thread) and _stop_heartbeat
SetBoilerState(c, active, t) ==
    IF active = c.boiler_active THEN c
    ELSE IF active
    THEN [c EXCEPT !.boiler_active = TRUE, !.boiler_on_time = t,
                   !.heartbeat_timer = "pending", !.hb_last_ping = "on"]
    ELSE [c EXCEPT !.boiler_active = FALSE, !.boiler_on_time = None,
                   !.heartbeat_timer = "none",
                   !.runtime_log = IF c.boiler_on_time # None
                                   THEN t - c.boiler_on_time ELSE 0]

\* HeatingControl._run_control_loop, lines 795-919: the zone loop and the
\* boiler aggregation inside one try block; an exception skips the rest
ControlLoop(c, rates, faulty, t) ==
    LET acc0 == [zones |-> c.zones, any_zone_active |-> FALSE,
                 raised |-> NoZone, processed |-> {}, published |-> {}]
        acc  == ZoneLoop(acc0, ConfiguredOrder(c.zones), 1, rates, faulty, t)
        c1   == [c EXCEPT !.zones = acc.zones,
                          !.tick = [raised |-> acc.raised,
                                    processed |-> acc.processed,
                                    published |-> acc.published,
                                    boiler_called |-> acc.raised = NoZone]]
    IN  IF acc.raised = NoZone
        THEN SetBoilerState(c1, acc.any_zone_active, t)
        ELSE c1

\* n control intervals in which no message arrives and no publish fails:
\* the control Timer runs the loop at the end of each
RECURSIVE IdleIntervals(_, _, _)
IdleIntervals(c, t, n) ==
    IF n = 0 THEN c
    ELSE LET c1 == ControlLoop(c, [z \in DOMAIN c.zones |-> "insufficient"],
                               NoZone, t + control_interval)
         IN  IF c1.tick.boiler_called
             THEN IdleIntervals(c1, t + control_interval, n - 1)
             ELSE c1

\* HeatingControl.__init__ and start for a configuration with the first n
\* zones: the first run of the loop, before any sensor has reported, is done
HeatInit(n) ==
    /\ now = 0
    /\ zones = [z \in {ZoneOrder[i] : i \in 1 .. n} |-> NewZone(0)]
    /\ boiler_active = FALSE
    /\ boiler_on_time = None
    /\ control_timer = control_interval
    /\ heartbeat_timer = "none"
    /\ hb_orphans = 0
    /\ hb_inflight = [publish |-> 0, schedule |-> 0]
    /\ hb_last_ping = "none"
    /\ runtime_log = 0
    /\ heating_mode = AUTO
    /\ tick = [raised |-> NoZone, processed |-> DOMAIN zones,
               published |-> {}, boiler_called |-> TRUE]
    /\ last = "tick"

Current ==
    Controller(zones, boiler_active, boiler_on_time, heartbeat_timer,
               hb_last_ping, runtime_log, tick)

Becomes(c) ==
    /\ zones' = c.zones
    /\ boiler_active' = c.boiler_active
    /\ boiler_on_time' = c.boiler_on_time
    /\ heartbeat_timer' = c.heartbeat_timer
    /\ hb_last_ping' = c.hb_last_ping
    /\ runtime_log' = c.runtime_log
    /\ tick' = c.tick

\* HeatingControl._run_control_loop, run by the control Timer; the finally
\* clause starts the next Timer
\* (RunControlLoopSchedulingInTry: the next Timer started at the end of the
\* try block, so not after an exception)
RunControlLoopSchedulingInTry(rates, faulty) ==
    /\ now >= control_timer
    /\ \A z \in DOMAIN zones : rates[z] \in RatesOf(zones[z], now)
    /\ Becomes(ControlLoop(Current, rates, faulty, now))
    /\ control_timer' =
          IF ControlLoop(Current, rates, faulty, now).tick.raised = NoZone
          THEN now + control_interval ELSE now + LongWait
    /\ last' = "tick"
    /\ UNCHANGED << now, hb_orphans, hb_inflight >>
    /\ UNCHANGED heating_mode
    /\ UNCHANGED sched_vars
RunControlLoop(rates, faulty) ==
    /\ now >= control_timer
    /\ \A z \in DOMAIN zones : rates[z] \in RatesOf(zones[z], now)
    /\ Becomes(ControlLoop(Current, rates, faulty, now))
    /\ control_timer' = now + control_interval
    /\ last' = "tick"
    /\ UNCHANGED << now, hb_orphans, hb_inflight >>
    /\ UNCHANGED heating_mode
    /\ UNCHANGED sched_vars

\* handle_message: a temperature sensor update
TemperatureUpdate(z, temp) ==
    /\ zones' = [zones EXCEPT ![z] = UpdateTemperature(@, temp, now)]
    /\ last' = "temperature"
    /\ UNCHANGED << now, boiler_active, boiler_on_time, control_timer,
                    heartbeat_timer, hb_orphans, hb_inflight, hb_last_ping,
                    tick >>
    /\ UNCHANGED << heating_mode, runtime_log >>
    /\ UNCHANGED sched_vars

\* handle_message: heating/<zone>/setpoint/set
SetpointOverride(z, sp) ==
    /\ zones' = [zones EXCEPT ![z].setpoint = sp, ![z].pid.setpoint = sp]
    /\ last' = "setpoint"
    /\ UNCHANGED << now, boiler_active, boiler_on_time, control_timer,
                    heartbeat_timer, hb_orphans, hb_inflight, hb_last_ping,
                    tick >>
    /\ UNCHANGED << heating_mode, runtime_log >>
    /\ UNCHANGED sched_vars

\* the modes sent to heating/mode/set
HeatingModes == {AUTO, OFF}

\* handle_message: heating/mode/set, _handle_mode_change (lines 785-789
\* log the mode and do nothing else)
ModeChange(mode) ==
    /\ heating_mode' = mode
    /\ last' = "mode"
    /\ UNCHANGED runtime_log
    /\ UNCHANGED << now, zones, boiler_active, boiler_on_time, control_timer,
                    heartbeat_timer, hb_orphans, hb_inflight, hb_last_ping,
                    tick >>
    /\ UNCHANGED sched_vars

\* handle_message: heating/window_detection/set
WindowDetectionSet(on) ==
    /\ zones' = [z \in DOMAIN zones |->
                    [zones[z] EXCEPT !.window_detection_enabled = on]]
    /\ last' = "window_detection"
    /\ UNCHANGED << now, boiler_active, boiler_on_time, control_timer,
                    heartbeat_timer, hb_orphans, hb_inflight, hb_last_ping,
                    tick >>
    /\ UNCHANGED << heating_mode, runtime_log >>
    /\ UNCHANGED sched_vars

\* a heartbeat Timer fires and its thread runs _send_heartbeat up to the
\* test of line 993; which: the Timer heartbeat_timer refers to, or another
HeartbeatFire(which) ==
    /\ hb_inflight.publish + hb_inflight.schedule < MaxInFlight
    /\ \/ /\ which = "referenced"
          /\ heartbeat_timer = "pending"
          /\ heartbeat_timer' = "fired"
          /\ UNCHANGED hb_orphans
       \/ /\ which = "orphan"
          /\ hb_orphans > 0
          /\ hb_orphans' = hb_orphans - 1
          /\ UNCHANGED heartbeat_timer
    /\ hb_inflight' = IF boiler_active
                      THEN [hb_inflight EXCEPT !.publish = @ + 1]
                      ELSE hb_inflight
    /\ last' = "heartbeat_fire"
    /\ UNCHANGED << now, zones, boiler_active, boiler_on_time, control_timer,
                    hb_last_ping, tick >>
    /\ UNCHANGED << heating_mode, runtime_log >>
    /\ UNCHANGED sched_vars

\* _send_heartbeat, line 998: the ping is published
HeartbeatPublish ==
    /\ hb_inflight.publish > 0
    /\ hb_inflight' = [publish |-> hb_inflight.publish - 1,
                       schedule |-> hb_inflight.schedule + 1]
    /\ hb_last_ping' = IF boiler_active THEN "on" ELSE "off"
    /\ last' = "heartbeat_publish"
    /\ UNCHANGED << now, zones, boiler_active, boiler_on_time, control_timer,
                    heartbeat_timer, hb_orphans, tick >>
    /\ UNCHANGED << heating_mode, runtime_log >>
    /\ UNCHANGED sched_vars

\* _send_heartbeat, lines 1002-1004: the next Timer is created and started
\* (HeartbeatScheduleOnce: the callback ends without starting a Timer)
HeartbeatScheduleOnce ==
    /\ hb_inflight.schedule > 0
    /\ hb_inflight' = [hb_inflight EXCEPT !.schedule = @ - 1]
    /\ last' = "heartbeat_schedule"
    /\ UNCHANGED << now, zones, boiler_active, boiler_on_time, control_timer,
                    heartbeat_timer, hb_orphans, hb_last_ping, tick >>
    /\ UNCHANGED << heating_mode, runtime_log >>
    /\ UNCHANGED sched_vars
HeartbeatSchedule ==
    /\ hb_inflight.schedule > 0
    /\ hb_inflight' = [hb_inflight EXCEPT !.schedule = @ - 1]
    /\ hb_orphans' = IF heartbeat_timer = "pending"
                     THEN hb_orphans + 1 ELSE hb_orphans
    /\ heartbeat_timer' = "pending"
    /\ last' = "heartbeat_schedule"
    /\ UNCHANGED << now, zones, boiler_active, boiler_on_time, control_timer,
                    hb_last_ping, tick >>
    /\ UNCHANGED << heating_mode, runtime_log >>
    /\ UNCHANGED sched_vars

\* time passes up to the moment the control Timer fires
Advance ==
    /\ now < control_timer
    /\ (now % LongWait) < MaxSteps * control_interval
    /\ now' = control_timer
    /\ last' = "advance"
    /\ UNCHANGED << zones, boiler_active, boiler_on_time, control_timer,
                    heartbeat_timer, hb_orphans, hb_inflight, hb_last_ping,
                    tick >>
    /\ UNCHANGED << heating_mode, runtime_log >>
    /\ UNCHANGED sched_vars

\* LongWait minutes pass in which no message arrives and no heartbeat
\* callback is under way
Idle ==
    /\ now < control_timer
    /\ now < LongWait
    /\ hb_inflight.publish + hb_inflight.schedule = 0
    /\ Becomes(IdleIntervals(Current, now, LongWait \div control_interval))
    /\ now' = now + LongWait
    /\ control_timer' = control_timer + LongWait
    /\ last' = "tick"
    /\ UNCHANGED << hb_orphans, hb_inflight >>
    /\ UNCHANGED heating_mode
    /\ UNCHANGED sched_vars

\* the length in minutes of a run of the service followed tick by tick
MaxMinutes == 20

\* time passes up to the moment the control Timer fires, in a run followed
\* tick by tick
Elapse ==
    /\ now < control_timer
    /\ now < MaxMinutes
    /\ now' = control_timer
    /\ last' = "advance"
    /\ UNCHANGED << zones, boiler_active, boiler_on_time, control_timer,
                    heartbeat_timer, hb_orphans, hb_inflight, hb_last_ping,
                    tick >>
    /\ UNCHANGED << heating_mode, runtime_log >>
    /\ UNCHANGED sched_vars

\* the step of the control Timer's thread: the Timer is due and
\* _run_control_loop runs (every step that starts the next Timer is one of
\* RunControlLoop, which is enabled whenever the Timer is due)
TimerFires ==
    /\ now >= control_timer
    /\ control_timer' = now + control_interval

\* the control thread and the sensors, tick by tick
LoopNext ==
    \/ \E rates \in [DOMAIN zones -> Rates], faulty \in DOMAIN zones \cup {NoZone} :
          RunControlLoop(rates, faulty)
    \/ \E z \in DOMAIN zones, temp \in Temps : TemperatureUpdate(z, temp)
    \/ Elapse

\* the control thread and the sensors
ControlNext ==
    \/ \E rates \in [DOMAIN zones -> Rates], faulty \in DOMAIN zones \cup {NoZone} :
          RunControlLoop(rates, faulty)
    \/ \E z \in DOMAIN zones, temp \in Temps : TemperatureUpdate(z, temp)
    \/ Advance
    \/ Idle

\* the other MQTT commands and the threads of the heartbeat Timers
HeatNext ==
    \/ ControlNext
    \/ \E z \in DOMAIN zones, sp \in SetpointOverrides : SetpointOverride(z, sp)
    \/ \E on \in BOOLEAN : WindowDetectionSet(on)
    \/ \E mode \in HeatingModes : ModeChange(mode)
    \/ \E which \in {"referenced", "orphan"} : HeartbeatFire(which)
    \/ HeartbeatPublish
    \/ HeartbeatSchedule

(***************************************************************************)
(* schedule_manager.py, onoff_controller.py, pid_controller.py: the        *)
(* methods of TimeBlock, Schedule and the controllers called on their own  *)
(***************************************************************************)

\* the hours "HH:00" a block may start or end at, and the times of day
BlockHours == {0, 6, 12, 22}
TimesOfDay == 0 .. 23
\* the hours of one week, Monday 00:00 to Sunday 23:00
WeekHours == 0 .. 167

\* schedules with a gap, with a block crossing midnight, with overlapping
\* blocks, without blocks and with an empty block
CalcSchedules ==
    { Schedules.ground_floor,
      [weekday_blocks |-> << TimeBlock(6, 12, 200), TimeBlock(8, 22, 220),
                             TimeBlock(22, 6, 170) >>,
       weekend_blocks |-> << TimeBlock(22, 6, 170), TimeBlock(4, 10, 230) >>],
      [weekday_blocks |-> << >>,
       weekend_blocks |-> << TimeBlock(12, 12, 150), TimeBlock(0, 12, 190) >>] }

\* the rest of the state when one of these methods is called
CalcFrame ==
    /\ UNCHANGED << sched_now, enabled, mode_managers, store, store_file,
                    persisted, ev, race >>
    /\ UNCHANGED heat_vars

\* TimeBlock(start, end, setpoint).contains(check_time)
ContainsCall(start, end, check_time) ==
    /\ calc' = [fn |-> "contains",
                block |-> TimeBlock(start, end, 200),
                check_time |-> check_time,
                result |-> Contains(TimeBlock(start, end, 200), check_time)]
    /\ CalcFrame

\* Schedule.get_setpoint_for_time(dt)
GetSetpointForTimeCall(schedule, dt) ==
    /\ calc' = [fn |-> "get_setpoint_for_time",
                schedule |-> schedule,
                dt |-> dt,
                setpoint |-> GetSetpointForTime(schedule, dt)]
    /\ CalcFrame

\* onoff_controller.py: hysteresis values, measurements and setpoints
\* (tenths of a degree) around the thresholds 19.5 and 20.0
Hystereses == {0, 5}
OnOffTemps == {194, 195, 197, 200, 201}
OnOffSetpoints == {200}

\* OnOffController.__init__
NewOnOff(hysteresis) == [hysteresis |-> hysteresis, is_heating |-> FALSE]

\* OnOffController.calculate_output: the controller after the call and the
\* output (OnOffCalculateOutputAtThreshold: ON already at the threshold)
OnOffCalculateOutputAtThreshold(c, current_temp, setpoint) ==
    LET is_heating ==
            IF current_temp <= setpoint - c.hysteresis THEN TRUE
            ELSE IF current_temp > setpoint THEN FALSE
            ELSE c.is_heating
    IN  [controller |-> [c EXCEPT !.is_heating = is_heating],
         output |-> IF is_heating THEN 100 ELSE 0]
OnOffCalculateOutput(c, current_temp, setpoint) ==
    LET turn_on_threshold  == setpoint - c.hysteresis
        turn_off_threshold == setpoint
        is_heating ==
            IF current_temp < turn_on_threshold THEN TRUE
            ELSE IF current_temp > turn_off_threshold THEN FALSE
            ELSE c.is_heating
    IN  [controller |-> [c EXCEPT !.is_heating = is_heating],
         output |-> IF is_heating THEN 100 ELSE 0]

\* OnOffController.reset
OnOffReset(c) == [c EXCEPT !.is_heating = FALSE]

\* the calls that leave an OnOffController in calc
OnOffCalls == {"onoff_init", "onoff_calculate_output", "onoff_reset"}

OnOffInitCall(hysteresis) ==
    /\ calc' = [fn |-> "onoff_init", controller |-> NewOnOff(hysteresis)]
    /\ CalcFrame

OnOffCalculateOutputCall(current_temp, setpoint) ==
    /\ calc.fn \in OnOffCalls
    /\ LET r == OnOffCalculateOutput(calc.controller, current_temp, setpoint) IN
       calc' = [fn |-> "onoff_calculate_output",
                controller |-> r.controller,
                was_heating |-> calc.controller.is_heating,
                current_temp |-> current_temp,
                setpoint |-> setpoint,
                output |-> r.output]
    /\ CalcFrame

OnOffResetCall ==
    /\ calc.fn \in OnOffCalls
    /\ calc' = [fn |-> "onoff_reset",
                controller |-> OnOffReset(calc.controller),
                was_heating |-> calc.controller.is_heating]
    /\ CalcFrame

\* pid_controller.py.  Temperatures in tenths of a degree, elapsed time in
\* centiseconds, output in percent.  Gains: kp in percent per degree, ki10
\* ten times ki (percent per degree-second), kd in percent-seconds per
\* degree.  The integral is in tenth-degree centiseconds.
PidGains == { [kp |-> 10, ki10 |-> 1, kd |-> 5],
              [kp |-> 10, ki10 |-> 0, kd |-> 0] }
PidLimits == { [lo |-> 0, hi |-> 100], [lo |-> 20, hi |-> 80] }
PidTemps == {-1000, 195, 3000}
PidSetpoints == {200}
\* elapsed time since the previous call: none, one second, five minutes
PidElapsed == {0, 100, 30000}
\* calculate_output calls made on one controller
MaxPidCalls == 2

\* PIDController.__init__ of pid_controller.py
NewPidController(gains, limits) ==
    [kp |-> gains.kp, ki10 |-> gains.ki10, kd |-> gains.kd,
     output_limits |-> limits,
     setpoint |-> 200, integral |-> 0, last_error |-> 0, calls |-> 0]

\* PIDController.calculate_output, line 79: the anti-windup bound
\* (PidMaxIntegralOfSpan: the output span, not divided by 2 * ki)
PidMaxIntegralOfSpan(c) ==
    IF c.ki10 # 0
    THEN (c.output_limits.hi - c.output_limits.lo) * 10000
    ELSE 100 * 1000
PidMaxIntegral(c) ==
    IF c.ki10 # 0
    THEN ((c.output_limits.hi - c.output_limits.lo) * 10000) \div (2 * c.ki10)
    ELSE 100 * 1000

\* PIDController.calculate_output, lines 88-90: the clamp of the output
\* (PidClampUpperOnly: the lower limit left out)
PidClampUpperOnly(c, output_raw) == Min(c.output_limits.hi, output_raw)
PidClamp(c, output_raw) ==
    Max(c.output_limits.lo, Min(c.output_limits.hi, output_raw))

\* PIDController.calculate_output: the controller after the call and the output
PidCalculateOutput(c, current_temp, setpoint, elapsed) ==
    LET dt       == IF elapsed <= 0 THEN 1 ELSE elapsed
        error    == setpoint - current_temp
        p_term   == (c.kp * error) \div 10
        integral == Max(-PidMaxIntegral(c),
                        Min(PidMaxIntegral(c), c.integral + error * dt))
        i_term   == (c.ki10 * integral) \div 10000
        d_term   == (c.kd * 10 * (error - c.last_error)) \div dt
    IN  [controller |-> [c EXCEPT !.setpoint = setpoint,
                                  !.integral = integral,
                                  !.last_error = error,
                                  !.calls = @ + 1],
         output |-> PidClamp(c, p_term + i_term + d_term)]

PidCalls == {"pid_init", "pid_calculate_output"}

PidInitCall(gains, limits) ==
    /\ calc' = [fn |-> "pid_init", controller |-> NewPidController(gains, limits)]
    /\ CalcFrame

PidCalculateOutputCall(current_temp, setpoint, elapsed) ==
    /\ calc.fn \in PidCalls
    /\ calc.controller.calls < MaxPidCalls
    /\ LET r == PidCalculateOutput(calc.controller, current_temp, setpoint,
                                   elapsed) IN
       calc' = [fn |-> "pid_calculate_output",
                controller |-> r.controller,
                current_temp |-> current_temp,
                elapsed |-> elapsed,
                output |-> r.output]
    /\ CalcFrame

\* PIDController.update of heating_control.py on a controller of its own,
\* constructed at time 0 with the zone's default setpoint
PidUpdateCall(measurement, current_time) ==
    /\ LET r == PIDUpdate(NewPID(default_setpoint, 0), measurement,
                          current_time) IN
       calc' = [fn |-> "pid_update", pid |-> r.pid,
                measurement |-> measurement, output |-> r.output]
    /\ CalcFrame

\* HeatingZone.can_change_pump_state: the reason returned with the verdict
CanChangePumpStateReason(zone, desired_state, t) ==
    IF desired_state /\ ~zone.pump_state
    THEN IF zone.pump_last_off_time = None THEN "First startup"
         ELSE IF CanTurnOn(zone, t) THEN "Pump has been OFF"
         ELSE "Pump must stay OFF"
    ELSE IF ~desired_state /\ zone.pump_state
    THEN IF zone.pump_last_on_time = None THEN "Initial state"
         ELSE IF CanTurnOff(zone, t) THEN "Pump has been ON"
         ELSE "Pump must stay ON"
    ELSE "No state change"

\* zones as set_pump_state leaves them: never switched, switched ON at
\* minute 10, and switched OFF again at minute 15 (by an open window)
PumpZones ==
    { NewZone(0),
      SetPumpState(NewZone(0), TRUE, 10),
      SetPumpState(SetPumpState(NewZone(0), TRUE, 10), FALSE, 15) }

\* time.time() at the call, minutes
PumpCallTimes == {15, 20, 24, 25, 30}

\* zone.can_change_pump_state(desired_state) at time t: the tuple returned
\* and the zone after the call (the method assigns no attribute)
CanChangePumpStateCall(zone, desired_state, t) ==
    /\ calc' = [fn |-> "can_change_pump_state", zone |-> zone,
                desired_state |-> desired_state, time |-> t,
                can_change |-> CanChangePumpState(zone, desired_state, t),
                reason |-> CanChangePumpStateReason(zone, desired_state, t),
                zone_after |-> zone]
    /\ CalcFrame

CalcNext ==
    \/ \E zone \in PumpZones, desired_state \in BOOLEAN, t \in PumpCallTimes :
          CanChangePumpStateCall(zone, desired_state, t)
    \/ \E start \in BlockHours, end \in BlockHours, t \in TimesOfDay :
          ContainsCall(start, end, t)
    \/ \E schedule \in CalcSchedules, dt \in WeekHours :
          GetSetpointForTimeCall(schedule, dt)
    \/ \E hysteresis \in Hystereses : OnOffInitCall(hysteresis)
    \/ \E t \in OnOffTemps, sp \in OnOffSetpoints : OnOffCalculateOutputCall(t, sp)
    \/ OnOffResetCall
    \/ \E gains \in PidGains, limits \in PidLimits : PidInitCall(gains, limits)
    \/ \E t \in PidTemps, sp \in PidSetpoints, elapsed \in PidElapsed :
          PidCalculateOutputCall(t, sp, elapsed)
    \/ \E t \in PidTemps, current_time \in {0, control_interval} :
          PidUpdateCall(t, current_time)

(***************************************************************************)
(* heating_zone.py: one HeatingZone with its controller, its methods       *)
(* called one after the other.  Temperatures in tenths of a degree, the    *)
(* clock in centiseconds.                                                  *)
(***************************************************************************)

\* controller_type of the zone's config
ControllerTypes == {"pid", "onoff"}
\* measurements and setpoints: 0.5, 1.0 and 2.0 degrees from the default
ZoneTemps == {190, 205}
ZoneSetpoints == {200, 205, 210, 220}
\* time between two calls: none, five minutes
ZoneElapsed == {0, 30000}
\* calls made on one zone
MaxZoneCalls == 4

\* HeatingZone.__init__, lines 34-50: the controller the config asks for,
\* with the defaults of config.get
NewController(controller_type, t) ==
    IF controller_type = "onoff"
    THEN [type |-> "onoff"] @@ NewOnOff(5)
    ELSE [type |-> "pid", last_time |-> t]
         @@ NewPidController([kp |-> 5, ki10 |-> 1, kd |-> 1],
                             [lo |-> 0, hi |-> 100])

\* HeatingZone.__init__
NewHeatingZone(controller_type, t) ==
    [current_temp |-> None,
     setpoint |-> default_setpoint,
     controller |-> NewController(controller_type, t),
     pump_state |-> FALSE,
     last_temp_update_time |-> None,
     pump_on_start_time |-> None]

\* PIDController.reset of pid_controller.py at time t
PidReset(c, t) == [c EXCEPT !.integral = 0, !.last_error = 0, !.last_time = t]

\* controller.reset() of either controller
ControllerReset(c, t) ==
    IF c.type = "onoff" THEN OnOffReset(c) ELSE PidReset(c, t)

\* controller.calculate_output(current_temp, setpoint) at time t; the PID
\* controller measures the time since its last_time and stores t
ControllerCalculateOutput(c, current_temp, setpoint, t) ==
    IF c.type = "onoff" THEN OnOffCalculateOutput(c, current_temp, setpoint)
    ELSE LET r == PidCalculateOutput(c, current_temp, setpoint, t - c.last_time)
         IN  [controller |-> [r.controller EXCEPT !.last_time = t],
              output |-> r.output]

\* HeatingZone.calculate_control_output of heating_zone.py: the zone after
\* the call and the output in percent
\* (ZoneCalculateControlOutputUnguarded: without the check of line 71)
ZoneCalculateControlOutputUnguarded(zone, t) ==
    LET r == ControllerCalculateOutput(zone.controller, zone.current_temp,
                                       zone.setpoint, t)
    IN  [zone |-> [zone EXCEPT !.controller = r.controller],
         output |-> r.output]
ZoneCalculateControlOutput(zone, t) ==
    IF zone.current_temp = None
    THEN [zone |-> zone, output |-> 0]
    ELSE LET r == ControllerCalculateOutput(zone.controller, zone.current_temp,
                                            zone.setpoint, t)
         IN  [zone |-> [zone EXCEPT !.controller = r.controller],
              output |-> r.output]

Abs(x) == IF x < 0 THEN -x ELSE x

\* HeatingZone.update_setpoint: line 98 assigns the setpoint, line 100 then
\* compares the new setpoint with self.setpoint
UpdateSetpoint(zone, new_setpoint, t) ==
    IF new_setpoint # zone.setpoint
    THEN LET assigned == [zone EXCEPT !.setpoint = new_setpoint]
         IN  IF Abs(new_setpoint - assigned.setpoint) > 10
             THEN [assigned EXCEPT !.controller = ControllerReset(@, t)]
             ELSE assigned
    ELSE zone

\* HeatingZone.set_pump_state of heating_zone.py: the zone after the call and
\* whether it raised.  Line 118 formats current_temp with ".1f", a TypeError
\* while no temperature was received, after line 115 and before line 135.
ZoneSetPumpState(zone, new_state, t) ==
    IF new_state # zone.pump_state
    THEN IF new_state
         THEN IF zone.current_temp = None
              THEN [zone |-> [zone EXCEPT !.pump_on_start_time = t],
                    raised |-> TRUE]
              ELSE [zone |-> [zone EXCEPT !.pump_on_start_time = t,
                                          !.pump_state = TRUE],
                    raised |-> FALSE]
         ELSE [zone |-> [zone EXCEPT !.pump_on_start_time = None,
                                     !.pump_state = FALSE],
               raised |-> FALSE]
    ELSE [zone |-> zone, raised |-> FALSE]

\* the calls that leave a HeatingZone in calc
ZoneCalls == {"zone_init", "update_temperature", "update_setpoint",
              "set_pump_state", "calculate_control_output",
              "controller_reset"}

\* a call on the zone in calc: the zone before and after it, the clock, the
\* argument, what it returned and whether it raised
ZoneCall(fn, zone, t, arg, output, raised) ==
    /\ calc.fn \in ZoneCalls
    /\ calc.calls < MaxZoneCalls
    /\ calc' = [fn |-> fn, before |-> calc.zone, zone |-> zone, time |-> t,
                calls |-> calc.calls + 1, arg |-> arg, output |-> output,
                raised |-> raised]
    /\ CalcFrame

HeatingZoneInitCall(controller_type) ==
    /\ calc' = [fn |-> "zone_init", before |-> NewHeatingZone(controller_type, 0),
                zone |-> NewHeatingZone(controller_type, 0), time |-> 0,
                calls |-> 0, arg |-> None, output |-> None, raised |-> FALSE]
    /\ CalcFrame

UpdateTemperatureCall(new_temp, t) ==
    ZoneCall("update_temperature",
             [calc.zone EXCEPT !.current_temp = new_temp,
                               !.last_temp_update_time = t],
             t, new_temp, None, FALSE)

UpdateSetpointCall(new_setpoint, t) ==
    ZoneCall("update_setpoint", UpdateSetpoint(calc.zone, new_setpoint, t),
             t, new_setpoint, None, FALSE)

ZoneSetPumpStateCall(new_state, t) ==
    ZoneCall("set_pump_state", ZoneSetPumpState(calc.zone, new_state, t).zone,
             t, IF new_state THEN 1 ELSE 0, None,
             ZoneSetPumpState(calc.zone, new_state, t).raised)

ZoneCalculateControlOutputCall(t) ==
    ZoneCall("calculate_control_output",
             ZoneCalculateControlOutput(calc.zone, t).zone, t, None,
             ZoneCalculateControlOutput(calc.zone, t).output, FALSE)

\* zone.controller.reset()
ControllerResetCall(t) ==
    ZoneCall("controller_reset",
             [calc.zone EXCEPT !.controller = ControllerReset(@, t)],
             t, None, None, FALSE)

\* heating_control.py: the zones a control tick can find (a pump that is or
\* was ON has had a temperature) and the duty cycles around the thresholds
StepZones ==
    {NewZone(0)} \cup {UpdateTemperature(z, temp, 10) : z \in PumpZones,
                                                         temp \in Temps}
StepDuties == {0, 4, 5, 6, 29, 30, 31, 100}

\* heating_control.py PIDController.set_setpoint and reset
\* (PIDSetSetpointResetting: a new target clears the accumulated terms)
PIDSetSetpointResetting(pid, setpoint) ==
    [pid EXCEPT !.setpoint = setpoint, !.integral = 0, !.last_error = 0]
PIDSetSetpoint(pid, setpoint) == [pid EXCEPT !.setpoint = setpoint]
PIDReset(pid, t) ==
    [pid EXCEPT !.integral = 0, !.last_error = 0, !.last_time = t]

\* the calls that leave a heating_control.py PIDController in calc; its
\* clock is in minutes
PIDCalls == {"pid_new", "pid_update_step", "pid_set_setpoint", "pid_reset_call"}

\* PIDController(KP, KI, KD, setpoint=default_setpoint)
PIDNewCall ==
    /\ calc' = [fn |-> "pid_new", before |-> NewPID(default_setpoint, 0),
                pid |-> NewPID(default_setpoint, 0), time |-> 0, calls |-> 0,
                arg |-> None, output |-> None]
    /\ CalcFrame

\* a call on the PIDController in calc
PIDCall(fn, pid, t, arg, output) ==
    /\ calc.fn \in PIDCalls
    /\ calc.calls < MaxZoneCalls
    /\ calc' = [fn |-> fn, before |-> calc.pid, pid |-> pid, time |-> t,
                calls |-> calc.calls + 1, arg |-> arg, output |-> output]
    /\ CalcFrame

\* The steps below are taken on zones of a HeatingControl, not in the
\* middle of the calls on a heating_zone.py zone.

\* _run_control_loop, lines 833-906 for one zone whose window is closed:
\* calculate_control_output, the comparison with the thresholds and the
\* pump command
ControlStepCall(zone, t) ==
    /\ calc.fn \notin ZoneCalls \cup PIDCalls
    /\ LET r == CalculateControlOutput(zone, t) IN
       calc' = [fn |-> "control_step", before |-> zone, time |-> t,
                output |-> r.output,
                desired |-> DesiredState(r.zone, r.output),
                zone |-> Regulate(r, FALSE, t).zone]
    /\ CalcFrame

\* _run_control_loop, lines 834-906 for a given duty cycle
RegulateCall(zone, duty_cycle, t) ==
    /\ calc.fn \notin ZoneCalls \cup PIDCalls
    /\ calc' = [fn |-> "regulate", before |-> zone, time |-> t,
                output |-> duty_cycle,
                desired |-> DesiredState(zone, duty_cycle),
                zone |-> Regulate([zone |-> zone, output |-> duty_cycle],
                                  FALSE, t).zone]
    /\ CalcFrame

UnitNext ==
    \/ \E controller_type \in ControllerTypes :
          HeatingZoneInitCall(controller_type)
    \/ \E new_temp \in ZoneTemps, dt \in ZoneElapsed :
          UpdateTemperatureCall(new_temp, calc.time + dt)
    \/ \E new_setpoint \in ZoneSetpoints, dt \in ZoneElapsed :
          UpdateSetpointCall(new_setpoint, calc.time + dt)
    \/ \E new_state \in BOOLEAN, dt \in ZoneElapsed :
          ZoneSetPumpStateCall(new_state, calc.time + dt)
    \/ \E dt \in ZoneElapsed : ZoneCalculateControlOutputCall(calc.time + dt)
    \/ \E dt \in ZoneElapsed : ControllerResetCall(calc.time + dt)
    \/ PIDNewCall
    \/ \E measurement \in Temps, dt \in {0, control_interval} :
          PIDCall("pid_update_step",
                  PIDUpdate(calc.pid, measurement, calc.time + dt).pid,
                  calc.time + dt, measurement,
                  PIDUpdate(calc.pid, measurement, calc.time + dt).output)
    \/ \E setpoint \in ZoneSetpoints :
          PIDCall("pid_set_setpoint", PIDSetSetpoint(calc.pid, setpoint),
                  calc.time, setpoint, None)
    \/ \E dt \in {0, control_interval} :
          PIDCall("pid_reset_call", PIDReset(calc.pid, calc.time + dt),
                  calc.time + dt, None, None)
    \/ \E zone \in StepZones, t \in PumpCallTimes : ControlStepCall(zone, t)
    \/ \E zone \in StepZones, duty_cycle \in StepDuties, t \in PumpCallTimes :
          RegulateCall(zone, duty_cycle, t)

(***************************************************************************)
(* schedule_manager.py: one ModeManager whose get_effective_setpoint and   *)
(* set_mode are called from two threads.  ModeManager holds no lock, so    *)
(* the two calls interleave between attribute assignments.                 *)
(***************************************************************************)

\* the ModeManager before the two calls: in Boost, expired or about to
RaceExpiries == {StartHour - 1, StartHour, StartHour + 1}
RaceManagers ==
    { [current_mode |-> BOOST, manual_setpoint |-> 240,
       boost_expires_at |-> e, previous_mode |-> p] :
         e \in RaceExpiries, p \in {AUTO, COMFORT} }

\* the arguments of the set_mode call
RaceRequests ==
    { r \in [mode : OperatingMode, manual_setpoint : ManualSetpoints,
             boost_duration_hours : BoostDurations] :
         r.mode # BOOST => r.boost_duration_hours = None }

\* ModeManager.get_effective_setpoint, lines 176-189: the steps of the expiry
\* branch in program order; "returned" stands for the rest of the method,
\* which changes nothing
ExpiryOrder ==
    << "test", "current_mode", "boost_expires_at", "manual_setpoint",
       "persist_state", "returned" >>

\* ModeManager.set_mode, lines 240-262: the assignments of the branch taken
\* for the mode, in program order
SetModeOrder(mode) ==
    IF mode = BOOST
    THEN << "previous_mode", "boost_expires_at", "manual_setpoint",
            "current_mode", "persist_state", "returned" >>
    ELSE << "manual_setpoint", "boost_expires_at", "previous_mode",
            "current_mode", "persist_state", "returned" >>

\* one assignment of the expiry branch, lines 186-188
ExpiryAssign(m, field) ==
    IF field = "current_mode" THEN [m EXCEPT !.current_mode = RevertMode(m)]
    ELSE IF field = "boost_expires_at" THEN [m EXCEPT !.boost_expires_at = None]
    ELSE IF field = "manual_setpoint" THEN [m EXCEPT !.manual_setpoint = None]
    ELSE m

\* one assignment of set_mode, lines 241-261
SetModeAssign(m, r, field, current_time) ==
    IF field = "previous_mode"
    THEN [m EXCEPT !.previous_mode =
                      IF r.mode = BOOST THEN m.current_mode ELSE NoMode]
    ELSE IF field = "boost_expires_at"
    THEN [m EXCEPT !.boost_expires_at =
                      IF r.mode = BOOST
                      THEN current_time
                           + (IF r.boost_duration_hours # None
                                 /\ r.boost_duration_hours # 0
                              THEN r.boost_duration_hours ELSE 2)
                      ELSE None]
    ELSE IF field = "manual_setpoint"
    THEN [m EXCEPT !.manual_setpoint =
                      IF r.mode \in {BOOST, MANUAL}
                      THEN r.manual_setpoint ELSE None]
    ELSE IF field = "current_mode" THEN [m EXCEPT !.current_mode = r.mode]
    ELSE m

\* the ModeManager m0 with its record in the file, a get_effective_setpoint
\* call and a set_mode(r) call about to start
RaceStart(m0, r) ==
    [fn |-> "race", start |-> m0, request |-> r, m |-> m0,
     record |-> PersistedRecord(m0), eval |-> 1, set |-> 1,
     returned_last |-> "none"]

\* the evaluating thread runs the next step of get_effective_setpoint
ExpiryStep ==
    LET step == ExpiryOrder[race.eval] IN
    /\ race.fn = "race"
    /\ step # "returned"
    /\ race' =
         IF step = "test"
         THEN [race EXCEPT
                 !.eval = IF BoostExpired(race.m, sched_now)
                          THEN 2 ELSE Len(ExpiryOrder),
                 !.returned_last = IF BoostExpired(race.m, sched_now)
                                   THEN @ ELSE "eval"]
         ELSE IF step = "persist_state"
         THEN [race EXCEPT !.record = PersistedRecord(race.m),
                           !.eval = @ + 1, !.returned_last = "eval"]
         ELSE [race EXCEPT !.m = ExpiryAssign(race.m, step), !.eval = @ + 1]
    /\ UNCHANGED << sched_now, enabled, mode_managers, store, store_file,
                    persisted, ev, calc >>
    /\ UNCHANGED heat_vars

\* the thread of the mode command runs the next step of set_mode
SetModeStep ==
    LET step == SetModeOrder(race.request.mode)[race.set] IN
    /\ race.fn = "race"
    /\ step # "returned"
    /\ race' =
         IF step = "persist_state"
         THEN [race EXCEPT !.record = PersistedRecord(race.m),
                           !.set = @ + 1, !.returned_last = "set"]
         ELSE [race EXCEPT
                 !.m = SetModeAssign(race.m, race.request, step, sched_now),
                 !.set = @ + 1]
    /\ UNCHANGED << sched_now, enabled, mode_managers, store, store_file,
                    persisted, ev, calc >>
    /\ UNCHANGED heat_vars

RaceNext == ExpiryStep \/ SetModeStep

(***************************************************************************)
(* schedule_manager.py: the ModeManagers of two zones over one persistence *)
(* file.  persist_state loads the file (lines 269-278), puts its own       *)
(* zone's record into the loaded data and writes the data back (lines      *)
(* 280-295).  No lock is held in between, so the persist_state calls of    *)
(* two zones, made from two threads, interleave between load and write.    *)
(***************************************************************************)

StoreZones == {"ground_floor", "first_floor"}
\* set_mode calls and Boost expiries in one run
MaxStoreCalls == 3
EmptyStore == [z \in StoreZones |-> NoRecord]
\* the set_mode calls made
StoreRequests ==
    { [mode |-> MANUAL, manual_setpoint |-> 240, boost_duration_hours |-> None],
      [mode |-> BOOST, manual_setpoint |-> 240, boost_duration_hours |-> 1],
      [mode |-> AWAY, manual_setpoint |-> None, boost_duration_hours |-> None] }

\* no persist_state call of the zone is under way
NotPersisting == [pc |-> "idle", data |-> EmptyStore, m |-> NewModeManager(AUTO)]

StoreStart ==
    [fn |-> "store",
     pending |-> [z \in StoreZones |-> NotPersisting],
     unsaved |-> [z \in StoreZones |-> FALSE],
     calls |-> 0,
     last |-> [op |-> "none", zone |-> "", failed |-> FALSE, retried |-> FALSE,
               m |-> NewModeManager(AUTO)]]

\* set_mode (lines 226-262) or the Boost expiry of get_effective_setpoint
\* (lines 177-189) leaves the zone's ModeManager as m and calls
\* persist_state, which loads the file
StoreBegin(z, m, op) ==
    /\ race.pending[z].pc = "idle"
    /\ race.calls < MaxStoreCalls
    /\ mode_managers' = [mode_managers EXCEPT ![z] = m]
    /\ race' = [race EXCEPT
                  !.pending[z] =
                      [pc |-> "loaded",
                       data |-> IF store_file = "unreadable"
                                THEN EmptyStore ELSE store,
                       m |-> m],
                  !.calls = @ + 1,
                  !.last = [op |-> op, zone |-> z, failed |-> FALSE,
                            retried |-> FALSE, m |-> m]]
    /\ UNCHANGED << sched_now, enabled, store, store_file, persisted, ev, calc >>
    /\ UNCHANGED heat_vars

\* persist_state, lines 280-295: the zone's record is put into the loaded
\* data and the data written; open(.., 'w') raising is caught and logged
StoreWrite(z) ==
    /\ race.pending[z].pc = "loaded"
    /\ store' = IF store_file = "readonly" THEN store
                ELSE PersistState(race.pending[z].data, "ok", z,
                                  mode_managers[z])
    /\ store_file' = PersistFile(store_file)
    /\ race' = [race EXCEPT
                  !.pending[z] = NotPersisting,
                  !.unsaved[z] = (store_file = "readonly"),
                  !.last = [op |-> "write", zone |-> z,
                            failed |-> store_file = "readonly",
                            retried |-> race.unsaved[z],
                            m |-> race.pending[z].m]]
    /\ UNCHANGED << sched_now, enabled, mode_managers, persisted, ev, calc >>
    /\ UNCHANGED heat_vars

\* the environment: the file's permissions change, or the file is damaged
\* and its records are lost
StoreFileChange(file) ==
    /\ store_file # "unreadable"
    /\ file # store_file
    /\ store_file' = file
    /\ store' = IF file = "unreadable" THEN EmptyStore ELSE store
    /\ race' = [race EXCEPT !.last = [op |-> "file", zone |-> "",
                                      failed |-> FALSE, retried |-> FALSE,
                                      m |-> NewModeManager(AUTO)]]
    /\ UNCHANGED << sched_now, enabled, mode_managers, persisted, ev, calc >>
    /\ UNCHANGED heat_vars

StoreNext ==
    \/ \E z \in StoreZones, r \in StoreRequests :
          StoreBegin(z, SetMode(mode_managers[z], r.mode, r.manual_setpoint,
                                r.boost_duration_hours, sched_now), "set_mode")
    \/ \E z \in StoreZones, t \in EvalTimes :
          /\ BoostExpired(mode_managers[z], t)
          /\ StoreBegin(z, AfterExpiry(mode_managers[z], t), "expiry")
    \/ \E z \in StoreZones : StoreWrite(z)
    \/ \E file \in FileStates : StoreFileChange(file)

(***************************************************************************)
(* Specifications.  The heating controller and the schedule manager are    *)
(* separate programs: each specification runs one of them and leaves the   *)
(* other in its initial state.                                             *)
(*   Spec      the controller with one zone: control loop, MQTT commands   *)
(*             and heartbeat Timer threads                                 *)
(*   PairSpec  the controller with two zones: control loop and sensors     *)
(*   SchedSpec the schedule manager                                        *)
(***************************************************************************)
vars == << now, zones, boiler_active, boiler_on_time, control_timer,
           heartbeat_timer, hb_orphans, hb_inflight, hb_last_ping,
           heating_mode, runtime_log, tick, last,
           sched_now, enabled, mode_managers, store, store_file, persisted,
           ev, calc, race >>

SchedIdle ==
    /\ sched_now = StartHour
    /\ enabled = TRUE
    /\ mode_managers = [z \in {"ground_floor"} |-> NewModeManager(AUTO)]
    /\ store = [z \in {"ground_floor"} |-> NoRecord]
    /\ store_file = "ok"
    /\ persisted = [z \in {"ground_floor"} |-> NotPersisted]
    /\ ev = Call("init", "", 0, NoArgs, NewModeManager(AUTO), "", None)
    /\ calc = NoCall
    /\ race = NoRace

Init == HeatInit(1) /\ SchedIdle
Next == HeatNext
Spec == Init /\ [][Next]_vars

PairInit == HeatInit(Len(ZoneOrder)) /\ SchedIdle
PairNext == ControlNext
PairSpec == PairInit /\ [][PairNext]_vars

SchedInit == ScheduleManagerInit /\ HeatInit(1)
SchedSpec == SchedInit /\ [][SchedNext]_vars

LoopSpec == Init /\ [][LoopNext]_vars
PairLoopSpec == PairInit /\ [][LoopNext]_vars

\* the service tick by tick with its scheduling: time passes, and a control
\* Timer that is due runs _run_control_loop
FairLoopSpec ==
    /\ Init /\ [][LoopNext]_vars
    /\ WF_vars(Elapse)
    /\ WF_control_timer(TimerFires)

RaceInit ==
    /\ sched_now = StartHour
    /\ enabled = TRUE
    /\ mode_managers = [z \in {"ground_floor"} |-> NewModeManager(AUTO)]
    /\ store = [z \in {"ground_floor"} |-> NoRecord]
    /\ store_file = "ok"
    /\ persisted = [z \in {"ground_floor"} |-> NotPersisted]
    /\ ev = Call("init", "", 0, NoArgs, NewModeManager(AUTO), "", None)
    /\ calc = NoCall
    /\ \E m0 \in RaceManagers, r \in RaceRequests : race = RaceStart(m0, r)
    /\ HeatInit(1)
RaceSpec == RaceInit /\ [][RaceNext]_vars

StoreInit ==
    /\ sched_now = StartHour
    /\ enabled = TRUE
    /\ mode_managers = [z \in StoreZones |-> NewModeManager(AUTO)]
    /\ store = EmptyStore
    /\ store_file = "ok"
    /\ persisted = [z \in StoreZones |-> NotPersisted]
    /\ ev = Call("init", "", 0, NoArgs, NewModeManager(AUTO), "", None)
    /\ calc = NoCall
    /\ race = StoreStart
    /\ HeatInit(1)
StoreSpec == StoreInit /\ [][StoreNext]_vars

CalcInit == SchedIdle /\ HeatInit(1)
CalcSpec == CalcInit /\ [][CalcNext]_vars

\* heating_zone.py: the methods of one HeatingZone called in sequence
UnitSpec == CalcInit /\ [][UnitNext]_vars

(***************************************************************************)
(* Claims on the heating controller                                        *)
(***************************************************************************)

\* the control loop has just run to its end without an exception
TickCompleted == last = "tick" /\ tick.raised = NoZone

\* C1: after a control tick, a zone whose last temperature update is older
\* than sensor_timeout_minutes has duty 0 and its pump OFF
C1_StaleSensorForcesPumpOff ==
    TickCompleted =>
        \A z \in DOMAIN zones :
            IsSensorStale(zones[z], now) =>
                /\ zones[z].pump_duty_cycle = 0
                /\ ~zones[z].pump_state

\* C2: after a control tick no pump is ON whose continuous run has reached
\* max_runtime_hours: the tick that finds it forces it OFF
C2_RuntimeLimitForcesPumpOff ==
    TickCompleted =>
        \A z \in DOMAIN zones : ~IsRuntimeExceeded(zones[z], now)

\* C3: at the end of a control tick the boiler is ON if and only if the pump
\* of at least one zone is ON
C3_BoilerOnIffSomePumpOn ==
    TickCompleted =>
        (boiler_active <=> \E z \in DOMAIN zones : zones[z].pump_state)

\* C4: when the processing of one zone raises during a control tick, every
\* other zone is still processed and _set_boiler_state still runs
C4_ZoneErrorIsIsolated ==
    (last = "tick" /\ tick.raised # NoZone) =>
        /\ tick.processed = DOMAIN zones \ {tick.raised}
        /\ tick.boiler_called

\* the heartbeat Timers that are pending
PendingHeartbeatTimers ==
    (IF heartbeat_timer = "pending" THEN 1 ELSE 0) + hb_orphans

\* C5: no heartbeat ping is published while the boiler is OFF, and while the
\* boiler is OFF no heartbeat Timer is pending
C5_NoHeartbeatAfterBoilerOff ==
    /\ hb_last_ping # "off"
    /\ ~boiler_active => PendingHeartbeatTimers = 0

\* C6: at every moment at most one heartbeat Timer is pending
C6_AtMostOnePendingHeartbeatTimer == PendingHeartbeatTimers <= 1

\* a pump went from ON to OFF in this step, less than pump_min_on_minutes
\* after it was turned ON
TurnedOffEarly(z) ==
    /\ zones[z].pump_state
    /\ ~zones'[z].pump_state
    /\ zones'[z].pump_last_off_time - zones[z].pump_last_on_time
           < pump_min_on_minutes

EvaluatedPastExpiry ==
    /\ ev.op = "get"
    /\ ev.pre.current_mode = BOOST
    /\ ev.pre.boost_expires_at # None
    /\ ev.time >= ev.pre.boost_expires_at

C9_ExpiredBoostRestoresPreviousMode ==
    (EvaluatedPastExpiry /\ ev.via = "mode_manager"
        /\ ev.pre.previous_mode # NoMode) =>
        /\ mode_managers[ev.zone].current_mode = ev.pre.previous_mode
        /\ (ev.pre.previous_mode = OFF => ev.ret = None)

\* C10: for every configured zone, with or without a schedule, an evaluation
\* by ScheduleManager.get_effective_setpoint at a time >= boost_expires_at
\* leaves the zone out of Boost and does not return the Boost setpoint.
C10_EvaluationPastExpiryEndsBoost ==
    (EvaluatedPastExpiry /\ enabled) =>
        /\ mode_managers[ev.zone].current_mode # BOOST
        /\ (ev.pre.manual_setpoint # None => ev.ret # ev.pre.manual_setpoint)


\* C11: after any sequence of set_mode, get_effective_setpoint and
\* load_state, a ModeManager whose current_mode is Boost has its
\* boost_expires_at set
C11_BoostAlwaysHasExpiry ==
    \A z \in DOMAIN mode_managers :
        mode_managers[z].current_mode = BOOST =>
            mode_managers[z].boost_expires_at # None

\* an evaluation of a zone that has a schedule, made by its ModeManager
\* while no Boost was past its expiry
EvaluatedBySchedule ==
    /\ ev.op = "get"
    /\ ev.via = "mode_manager"
    /\ ~(/\ ev.pre.current_mode = BOOST
         /\ ev.pre.boost_expires_at # None
         /\ ev.time >= ev.pre.boost_expires_at)

\* C12: for a zone with a schedule and no expired Boost, with s the
\* schedule's setpoint at the evaluated time: Auto gives s, Comfort
\* s + comfort_offset, Away s + away_offset, Vacation vacation_setpoint, Off
\* none, Manual and Boost manual_setpoint; when no block matches, Auto,
\* Comfort and Away give none
C12_EffectiveSetpointFollowsModeTable ==
    EvaluatedBySchedule =>
        LET s == GetSetpointForTime(Schedules[ev.zone], ev.time)
            mode == ev.pre.current_mode
        IN  /\ mode = AUTO => ev.ret = s
            /\ (mode = COMFORT /\ s # None) => ev.ret = s + comfort_offset
            /\ (mode = AWAY /\ s # None) => ev.ret = s + away_offset
            /\ (mode \in {AUTO, COMFORT, AWAY} /\ s = None) => ev.ret = None
            /\ mode = VACATION => ev.ret = vacation_setpoint
            /\ mode = OFF => ev.ret = None
            /\ mode \in {MANUAL, BOOST} => ev.ret = ev.pre.manual_setpoint

\* an Away zone evaluated inside a schedule block
C12_Witness ==
    /\ EvaluatedBySchedule
    /\ ev.pre.current_mode = AWAY
    /\ GetSetpointForTime(Schedules[ev.zone], ev.time) = 180
    /\ ev.ret = 150

\* a Comfort zone evaluated where no schedule block matches
C12_NoBlockWitness ==
    /\ EvaluatedBySchedule
    /\ ev.pre.current_mode = COMFORT
    /\ GetSetpointForTime(Schedules[ev.zone], ev.time) = None
    /\ ev.ret = None

\* C13: set_mode(Boost, sp, d) records the mode it replaces as
\* previous_mode, boost_expires_at = now + d (the configured default when d
\* is not given) and manual_setpoint = sp; set_mode(Manual, sp) sets
\* manual_setpoint and clears boost_expires_at and previous_mode; any other
\* mode clears all three; current_mode becomes the requested mode
C13_SetModeRecordsRequest ==
    ev.op = "set" =>
        LET m == mode_managers[ev.zone]
            a == ev.args
            d == IF a.boost_duration_hours # None
                 THEN a.boost_duration_hours
                 ELSE default_boost_duration_hours
        IN  /\ m.current_mode = a.mode
            /\ a.mode = BOOST =>
                  /\ m.previous_mode = ev.pre.current_mode
                  /\ m.boost_expires_at = ev.time + d
                  /\ m.manual_setpoint = a.manual_setpoint
            /\ a.mode = MANUAL =>
                  /\ m.manual_setpoint = a.manual_setpoint
                  /\ m.boost_expires_at = None
                  /\ m.previous_mode = NoMode
            /\ a.mode \notin {BOOST, MANUAL} =>
                  /\ m.manual_setpoint = None
                  /\ m.boost_expires_at = None
                  /\ m.previous_mode = NoMode

\* the same for every duration other than 0 hours
C13_ExceptZeroDuration ==
    (ev.op = "set" /\ ev.args.boost_duration_hours = 0)
        \/ C13_SetModeRecordsRequest

\* the setpoint a zone without schedule supports in the evaluated mode
UnscheduledSetpoint ==
    IF ev.pre.current_mode \in {MANUAL, BOOST} THEN ev.pre.manual_setpoint
    ELSE IF ev.pre.current_mode = VACATION THEN vacation_setpoint
    ELSE None

\* C14 as stated: for a zone with no configured schedule, the effective
\* setpoint is manual_setpoint in Manual or Boost, vacation_setpoint in
\* Vacation, and none in every other mode
C14_NoScheduleSetpoint ==
    (ev.op = "get" /\ ~HasSchedule(ev.zone)) => ev.ret = UnscheduledSetpoint

\* C14: while scheduling is enabled, for a zone with no configured schedule,
\* the effective setpoint is manual_setpoint in Manual or Boost,
\* vacation_setpoint in Vacation, and none in every other mode
C14_NoScheduleSetpointWhenEnabled ==
    (ev.op = "get" /\ ~HasSchedule(ev.zone) /\ enabled) =>
        ev.ret = UnscheduledSetpoint

\* an enabled manager evaluates a zone without schedule in Vacation
C14_Witness ==
    /\ ev.op = "get"
    /\ ~HasSchedule(ev.zone)
    /\ enabled
    /\ ev.pre.current_mode = VACATION
    /\ ev.ret = vacation_setpoint

\* a step in which _run_control_loop runs (the next control Timer is started)
ControlLoopRuns == control_timer' # control_timer

\* C15: on a control tick where a zone has no valid effective setpoint (the
\* heating mode is Off), the zone's pump is commanded OFF and the controller
\* is not evaluated: the PID state (integral, last_error) is as before
C15_NoSetpointForcesPumpOffAndSkipsController ==
    [][(heating_mode = OFF /\ ControlLoopRuns) =>
          \A z \in DOMAIN zones :
              /\ ~zones'[z].pump_state
              /\ zones'[z].pid = zones[z].pid]_vars

\* C16: is_sensor_stale is true exactly when a temperature update has been
\* received and more than sensor_timeout_minutes have passed since the last
\* one; a zone that never received an update is not reported stale
C16_StaleOnlyAfterAnUpdate ==
    \A z \in DOMAIN zones :
        IsSensorStale(zones[z], now) <=>
            /\ zones[z].last_temp_update_time # None
            /\ now - zones[z].last_temp_update_time > sensor_timeout_minutes

\* the same for the zones that have received an update
C16_StaleAfterTimeout ==
    \A z \in DOMAIN zones :
        zones[z].last_temp_update_time # None =>
            (IsSensorStale(zones[z], now) <=>
                now - zones[z].last_temp_update_time > sensor_timeout_minutes)

\* C17: on every control tick, for every zone that is processed, the
\* realized pump state is published, also when the pump state did not
\* change and when pump protection denied the requested change
C17_PumpStatePublishedEveryTick ==
    last = "tick" => \A z \in tick.processed : z \in tick.published

\* the last call changed a ModeManager: set_mode, or an evaluation that
\* found the Boost past its expiry
ModeManagerMutated ==
    \/ ev.op = "set"
    \/ (EvaluatedPastExpiry /\ ev.via = "mode_manager")

\* C18: after every completed mutation of a ModeManager (set_mode, or the
\* lazy Boost expiry inside get_effective_setpoint), when the store is
\* writable, the zone's persisted record equals the in-memory state in
\* mode, manual_setpoint, boost_expires_at and previous_mode
C18_PersistedRecordMatchesMemory ==
    (ModeManagerMutated /\ store_file = "ok") =>
        LET m == mode_managers[ev.zone]
            r == store[ev.zone]
        IN  /\ r.mode = m.current_mode
            /\ r.manual_setpoint = m.manual_setpoint
            /\ r.previous_mode = m.previous_mode
            /\ IF m.boost_expires_at = None
               THEN r.boost_expires_at = IsoNull
               ELSE /\ ValidIso(r.boost_expires_at)
                    /\ FromIsoFormat(r.boost_expires_at) = m.boost_expires_at

\* a Boost entered from Comfort has been persisted with its expiry
C18_Witness ==
    /\ ev.op = "set"
    /\ store_file = "ok"
    /\ mode_managers[ev.zone].current_mode = BOOST
    /\ mode_managers[ev.zone].previous_mode = COMFORT
    /\ store[ev.zone].boost_expires_at = IsoFormat(ev.time + 1)

\* the lazy expiry has been persisted
C18_ExpiryWitness ==
    /\ EvaluatedPastExpiry
    /\ ev.via = "mode_manager"
    /\ store_file = "ok"
    /\ store[ev.zone].mode = AUTO

\* a mutation whose write failed: the record is not the in-memory state
C18_UnwritableWitness ==
    /\ ev.op = "set"
    /\ store_file = "readonly"
    /\ store[ev.zone].mode # mode_managers[ev.zone].current_mode

\* C19: persist followed by load is the identity: a ModeManager newly
\* constructed over the store restores exactly the mode, manual_setpoint,
\* boost_expires_at and previous_mode that were persisted last
C19_LoadRestoresPersistedState ==
    \A z \in DOMAIN mode_managers :
        (ev.op = "load" /\ store_file # "unreadable"
            /\ persisted[z].current_mode # NoMode) =>
            /\ mode_managers[z].current_mode = persisted[z].current_mode
            /\ mode_managers[z].manual_setpoint = persisted[z].manual_setpoint
            /\ mode_managers[z].boost_expires_at = persisted[z].boost_expires_at
            /\ mode_managers[z].previous_mode = persisted[z].previous_mode

\* a restart restores a persisted Boost with its setpoint, expiry and
\* previous mode
C19_Witness ==
    /\ ev.op = "load"
    /\ store_file = "ok"
    /\ persisted[ev.zone].current_mode = BOOST
    /\ mode_managers[ev.zone].current_mode = BOOST
    /\ mode_managers[ev.zone].manual_setpoint = 240
    /\ mode_managers[ev.zone].boost_expires_at = StartHour + 1
    /\ mode_managers[ev.zone].previous_mode = COMFORT

\* C20: if reading the persisted state fails (the store does not parse, or
\* a field of the record holds an invalid value), the ModeManager is left in
\* its default state (Auto with a schedule, Manual without) and no field is
\* taken from the bad record
C20_FailedLoadLeavesDefaults ==
    (ev.op = "load" /\ ev.via = "failed") =>
        LET m == mode_managers[ev.zone] IN
        /\ m.current_mode = (IF HasSchedule(ev.zone) THEN AUTO ELSE MANUAL)
        /\ m.manual_setpoint = None
        /\ m.boost_expires_at = None
        /\ m.previous_mode = NoMode

\* the same when the store does not parse or the record's mode is invalid
C20_UnreadableStoreLeavesDefaults ==
    (ev.op = "load" /\ ev.via = "failed"
        /\ (store_file = "unreadable" \/ store[ev.zone].mode \notin OperatingMode))
        => C20_FailedLoadLeavesDefaults

\* C21: TimeBlock.contains(t) is true iff start <= t < end when
\* start <= end, and iff t >= start or t < end when start > end (a block
\* crossing midnight); a block with start = end contains no time
C21_ContainsIsHalfOpenInterval ==
    calc.fn = "contains" =>
        LET start == calc.block.start_time
            end   == calc.block.end_time
            t     == calc.check_time
        IN  /\ start <= end => (calc.result <=> (start <= t /\ t < end))
            /\ start > end => (calc.result <=> (t >= start \/ t < end))
            /\ start = end => ~calc.result

\* 02:00 is found inside the block 22:00-06:00
C21_Witness ==
    /\ calc.fn = "contains"
    /\ calc.block.start_time = 22
    /\ calc.block.end_time = 6
    /\ calc.check_time = 2
    /\ calc.result

\* the blocks of the sequence that contain the time of day, by position
MatchingBlocks(blocks, t) ==
    {i \in 1 .. Len(blocks) :
        IF blocks[i].start_time <= blocks[i].end_time
        THEN blocks[i].start_time <= t /\ t < blocks[i].end_time
        ELSE t >= blocks[i].start_time \/ t < blocks[i].end_time}

\* C22: Schedule.get_setpoint_for_time(dt) uses the weekend blocks iff dt's
\* own date is a Saturday or Sunday and the weekday blocks otherwise,
\* returns the setpoint of the first block in declaration order that
\* contains dt's time of day, and no-match when no block of the selected
\* sequence contains it
C22_FirstMatchingBlockOfTheDay ==
    calc.fn = "get_setpoint_for_time" =>
        LET day      == (calc.dt \div 24) % 7
            blocks   == IF day \in {5, 6} THEN calc.schedule.weekend_blocks
                        ELSE calc.schedule.weekday_blocks
            matching == MatchingBlocks(blocks, calc.dt % 24)
        IN  IF matching = {} THEN calc.setpoint = None
            ELSE \E i \in matching :
                    /\ \A j \in matching : i <= j
                    /\ calc.setpoint = blocks[i].setpoint

\* Saturday 05:00 of a schedule whose weekend blocks 22:00-06:00 and
\* 04:00-10:00 overlap there, and whose Friday block 22:00-06:00 has the
\* same hours: the first weekend block answers
C22_Witness ==
    /\ calc.fn = "get_setpoint_for_time"
    /\ calc.dt = 5 * 24 + 5
    /\ Len(calc.schedule.weekend_blocks) = 2
    /\ calc.schedule.weekend_blocks[2].setpoint = 230
    /\ calc.setpoint = 170

C23_OffWitness ==
    /\ calc.fn = "onoff_calculate_output"
    /\ calc.controller.hysteresis = 5
    /\ calc.current_temp = 195
    /\ ~calc.was_heating
    /\ calc.output = 0

\* C24: for every measurement, setpoint, elapsed time and prior controller
\* state, the value the PID update returns lies within the configured
\* output_limits
C24_PidOutputWithinLimits ==
    /\ calc.fn = "pid_calculate_output" =>
          /\ calc.controller.output_limits.lo <= calc.output
          /\ calc.output <= calc.controller.output_limits.hi
    /\ calc.fn = "pid_update" => (0 <= calc.output /\ calc.output <= 100)

\* a second call 130 degrees above the setpoint, with limits 20 .. 80,
\* returns the lower limit
C24_Witness ==
    /\ calc.fn = "pid_calculate_output"
    /\ calc.controller.calls = 2
    /\ calc.current_temp = 3000
    /\ calc.controller.output_limits.lo = 20
    /\ calc.output = 20


\* C25: the system keeps a total of the boiler's runtime in minutes: the total
\* never decreases, it changes only in a step that turns the boiler from ON
\* to OFF, and that step adds the minutes since boiler_on_time to it.  The
\* only runtime the code computes is the "Total runtime" it logs at BOILER
\* OFF (runtime_log); the last two parts are stated about single runs of the
\* control loop (steps that leave the clock alone).
C25_BoilerRuntimeAccumulates ==
    [][/\ runtime_log' >= runtime_log
       /\ now' = now =>
            /\ runtime_log' # runtime_log => boiler_active /\ ~boiler_active'
            /\ boiler_active /\ ~boiler_active' =>
                 runtime_log' = runtime_log + (now - boiler_on_time)]_vars

\* both calls have returned
RaceOver ==
    /\ race.fn = "race"
    /\ ExpiryOrder[race.eval] = "returned"
    /\ SetModeOrder(race.request.mode)[race.set] = "returned"

\* the ModeManager after the two calls one after the other, in either order
SerialOutcomes ==
    LET r == race.request
        EvalThenSet ==
            SetMode(AfterExpiry(race.start, sched_now), r.mode,
                    r.manual_setpoint, r.boost_duration_hours, sched_now)
        SetThenEval ==
            AfterExpiry(SetMode(race.start, r.mode, r.manual_setpoint,
                                r.boost_duration_hours, sched_now), sched_now)
    IN  {EvalThenSet, SetThenEval}

\* C26: a set_mode that runs concurrently with an evaluation that expires
\* Boost on the same zone is serialized: once both calls have returned, the
\* ModeManager and its persisted record are those of one of the two serial
\* orders.
C26_ConcurrentModeChangeIsSerialized ==
    (RaceOver /\ BoostExpired(race.start, sched_now)) =>
        /\ race.m \in SerialOutcomes
        /\ race.record = PersistedRecord(race.m)

C27_DeniedWitness ==
    /\ calc.fn = "can_change_pump_state"
    /\ ~calc.desired_state /\ calc.zone.pump_state
    /\ ~calc.can_change

DeniedOnLastTick(z) ==
    /\ z \in tick.processed
    /\ ~zones[z].window_open
    /\ zones[z].pump_duty_cycle > pump_duty_on_threshold
    /\ ~zones[z].pump_state
    /\ zones[z].pump_last_off_time # None

\* on this tick zone z still wants its pump ON (the PID output for its
\* temperature is above the ON threshold), no open window is known or
\* detected, nothing raises while z is processed, and the dwell time is over
StillDesiredAfterDwell(z) ==
    /\ ControlLoopRuns
    /\ now' = now
    /\ ~zones'[z].window_open
    /\ tick'.raised # z
    /\ CalculateControlOutput(zones[z], now).output > pump_duty_on_threshold
    /\ now - zones[z].pump_last_off_time >= pump_min_off_minutes

\* C29: a pump change that was denied is requested again on every later
\* tick where it is still desired, and applied on the first such tick at or
\* after the end of the dwell time: a zone whose ON request was denied on
\* the last tick and that still wants its pump ON on a tick at or after the
\* end of the minimum OFF time has its pump ON after that tick.
C29_DeniedRequestAppliedAfterDwell ==
    [][\A z \in DOMAIN zones :
          (DeniedOnLastTick(z) /\ StillDesiredAfterDwell(z)) =>
              zones'[z].pump_state]_vars

\* the same for the ticks that reach the zone: a tick that processes z
\* (tick'.processed) turns its pump ON
ProcessedRequestAppliedAfterDwell ==
    [][\A z \in DOMAIN zones :
          (DeniedOnLastTick(z) /\ StillDesiredAfterDwell(z)
             /\ z \in tick'.processed) =>
              zones'[z].pump_state]_vars

\* the heartbeat of the current ON period goes on: the Timer that
\* heartbeat_timer refers to is pending, or a _send_heartbeat callback that
\* found the boiler active is on its way to the next Timer
HeartbeatUnderWay ==
    \/ heartbeat_timer = "pending"
    \/ hb_inflight.publish + hb_inflight.schedule > 0

ControllerIsReset(c) ==
    IF c.type = "onoff" THEN ~c.is_heating
    ELSE c.integral = 0 /\ c.last_error = 0

\* C31: HeatingZone.update_setpoint resets the zone's controller (PID integral
\* and last_error cleared, hysteresis heating OFF) whenever the new setpoint
\* differs from the previous one by more than 1.0 degree, and leaves the
\* controller as it was for a smaller change or an equal setpoint.
C31_SetpointChangeResetsController ==
    calc.fn = "update_setpoint" =>
        IF Abs(calc.arg - calc.before.setpoint) > 10
        THEN ControllerIsReset(calc.zone.controller)
        ELSE calc.zone.controller = calc.before.controller

\* C32: in every state of a HeatingZone, after any sequence of
\* set_pump_state calls (a call that fails part-way included),
\* pump_on_start_time is set exactly when pump_state is ON.
C32_StartTimeSetIffPumpOn ==
    calc.fn \in ZoneCalls =>
        (calc.zone.pump_on_start_time # None <=> calc.zone.pump_state)

\* C32, the calls that return: set_pump_state sets pump_on_start_time on
\* OFF -> ON, clears it on ON -> OFF and leaves it alone otherwise.
C32_CompletedCallsTrackStartTime ==
    (calc.fn = "set_pump_state" /\ ~calc.raised) =>
        /\ calc.zone.pump_state = (calc.arg = 1)
        /\ calc.zone.pump_on_start_time =
              IF calc.zone.pump_state = calc.before.pump_state
              THEN calc.before.pump_on_start_time
              ELSE IF calc.zone.pump_state THEN calc.time ELSE None

\* C33: while current_temp is unknown calculate_control_output returns 0 and
\* leaves the controller as it was (PID integral, last_error and time
\* reference, hysteresis is_heating), in heating_zone.py and in
\* heating_control.py, so the control loop never asks for the pump of such a
\* zone to be switched ON.
C33_UnknownTemperatureGivesZero ==
    /\ (calc.fn = "calculate_control_output" /\ calc.before.current_temp = None)
          => /\ calc.output = 0
             /\ calc.zone.controller = calc.before.controller
    /\ (calc.fn = "control_step" /\ calc.before.current_temp = None)
          => /\ calc.output = 0
             /\ calc.zone.pid = calc.before.pid
             /\ calc.desired # "ON"
             /\ ~calc.zone.pump_state

\* calculate_control_output was called on a heating_zone.py zone that has no
\* temperature and whose setpoint was raised
C33_Witness ==
    /\ calc.fn = "calculate_control_output"
    /\ calc.before.current_temp = None
    /\ calc.before.setpoint > default_setpoint
    /\ calc.output = 0

\* a control step on a heating_control.py zone that has no temperature
C33_StepWitness ==
    /\ calc.fn = "control_step"
    /\ calc.before.current_temp = None
    /\ calc.desired = "keep"

\* C34: a persist_state whose write fails, during set_mode or a Boost expiry,
\* leaves the ModeManager as the mutation made it; the next mutation of the
\* zone writes again, and a write that succeeds stores the zone's current
\* full state.
C34_FailedWriteKeepsModeAndIsRetried ==
    (race.fn = "store" /\ race.last.op = "write") =>
        LET z == race.last.zone IN
        /\ mode_managers[z] = race.last.m
        /\ ~race.last.failed => store[z] = PersistedRecord(mode_managers[z])
        /\ race.last.failed <=> race.unsaved[z]

\* the write of a mutation succeeded after the write of the zone's previous
\* mutation had failed, and the record holds all four fields of a Boost
C34_Witness ==
    /\ race.fn = "store"
    /\ race.last.op = "write"
    /\ ~race.last.failed
    /\ race.last.retried
    /\ mode_managers[race.last.zone].current_mode = BOOST
    /\ store[race.last.zone].previous_mode = MANUAL
    /\ store[race.last.zone].boost_expires_at # IsoNull

\* a write failed and the zone is in the mode the failed call set
C34_FailedWitness ==
    /\ race.fn = "store"
    /\ race.last.op = "write"
    /\ race.last.failed
    /\ mode_managers[race.last.zone].current_mode = MANUAL
    /\ store[race.last.zone] = NoRecord

\* the step is the write of a persist_state call of zone z
WritesStore(z) ==
    /\ race.fn = "store"
    /\ race.pending[z].pc = "loaded"
    /\ race'.pending[z].pc = "idle"

\* C39: persisting one zone's mode state never removes or alters the record
\* of another zone in the shared persistence file, also when the
\* ModeManagers of two zones persist concurrently.
C39_PersistKeepsOtherZonesRecords ==
    [][\A z \in StoreZones :
          WritesStore(z) =>
              \A y \in StoreZones \ {z} : store'[y] = store[y]]_vars

\* C39, one call at a time: a persist_state that runs from load to write
\* while no other zone has written leaves the other zones' records alone.
C39_SerialPersistKeepsOtherZonesRecords ==
    [][\A z \in StoreZones :
          (WritesStore(z) /\ store_file # "unreadable"
             /\ race.pending[z].data = store) =>
              \A y \in StoreZones \ {z} : store'[y] = store[y]]_vars

\* C35: after every PID update the stored integral is bounded: with ki # 0
\* |integral| <= |(max_limit - min_limit) / (2 * ki)|, with ki = 0
\* |integral| <= 100 (degree-seconds; the model counts tenth-degree
\* centiseconds and ki in tenths).
C35_IntegralIsBounded ==
    /\ calc.fn = "pid_calculate_output" =>
          LET c == calc.controller IN
          IF c.ki10 # 0
          THEN 2 * Abs(c.ki10) * Abs(c.integral)
                  <= (c.output_limits.hi - c.output_limits.lo) * 10000
          ELSE Abs(c.integral) <= 100 * 1000
    /\ calc.fn = "pid_update" =>
          IF KI # 0 THEN 2 * Abs(KI) * Abs(calc.pid.integral) <= 100 * 1000
          ELSE Abs(calc.pid.integral) <= 100 * 1000

\* the second update of a controller with ki # 0 left the integral at its
\* bound: the error of either sign, accumulated over five minutes, was cut
C35_Witness ==
    /\ calc.fn = "pid_calculate_output"
    /\ calc.controller.calls = 2
    /\ calc.controller.ki10 # 0
    /\ calc.elapsed = 30000
    /\ 2 * calc.controller.ki10 * calc.controller.integral
          = -(calc.controller.output_limits.hi
               - calc.controller.output_limits.lo) * 10000

\* an update of a controller with ki = 0 left the integral at the fixed cap
C35_ZeroGainWitness ==
    /\ calc.fn = "pid_calculate_output"
    /\ calc.controller.ki10 = 0
    /\ calc.controller.integral = 100 * 1000

\* C36: reset() of a PID controller sets integral and last_error to 0 from any
\* state.  Changing the setpoint, by set_setpoint or by passing another
\* setpoint to calculate_output, changes the target only: integral and
\* last_error are kept and the update runs as on a controller that had the
\* new target all along.  Every update stores the error and the time of the
\* call, also when the output was clamped.
C36_ResetAndSetpointFrame ==
    /\ calc.fn = "pid_reset_call" =>
          /\ calc.pid.integral = 0 /\ calc.pid.last_error = 0
          /\ calc.pid.setpoint = calc.before.setpoint
    /\ (calc.fn = "controller_reset" /\ calc.zone.controller.type = "pid") =>
          /\ calc.zone.controller.integral = 0
          /\ calc.zone.controller.last_error = 0
    /\ calc.fn = "pid_set_setpoint" =>
          /\ calc.pid.setpoint = calc.arg
          /\ calc.pid.integral = calc.before.integral
          /\ calc.pid.last_error = calc.before.last_error
          /\ calc.pid.last_time = calc.before.last_time
    /\ calc.fn = "pid_update_step" =>
          /\ calc.pid.last_error = calc.before.setpoint - calc.arg
          /\ calc.pid.last_time = calc.time
          /\ calc.pid.setpoint = calc.before.setpoint
    /\ (calc.fn = "calculate_control_output"
          /\ calc.zone.controller.type = "pid"
          /\ calc.before.current_temp # None) =>
          /\ calc.zone.controller.setpoint = calc.before.setpoint
          /\ calc.zone.controller.last_error
                = calc.before.setpoint - calc.before.current_temp
          /\ calc.zone.controller.last_time = calc.time
          /\ calc.zone.controller
                = ControllerCalculateOutput(
                      [calc.before.controller
                          EXCEPT !.setpoint = calc.before.setpoint],
                      calc.before.current_temp, calc.before.setpoint,
                      calc.time).controller

\* set_setpoint was called on a controller that had accumulated an integral
\* and an error
C36_Witness ==
    /\ calc.fn = "pid_set_setpoint"
    /\ calc.arg # calc.before.setpoint
    /\ calc.before.integral # 0
    /\ calc.before.last_error # 0

\* reset() was called on a controller that had accumulated both
C36_ResetWitness ==
    /\ calc.fn = "pid_reset_call"
    /\ calc.before.integral # 0
    /\ calc.before.last_error # 0

\* calculate_output was passed a setpoint other than the controller's, with
\* an integral accumulated, and the output was clamped
C36_NewTargetWitness ==
    /\ calc.fn = "calculate_control_output"
    /\ calc.zone.controller.type = "pid"
    /\ calc.before.current_temp # None
    /\ calc.before.controller.setpoint # calc.before.setpoint
    /\ calc.before.controller.integral # 0
    /\ calc.output = 100

\* C37: a duty cycle above pump_duty_on_threshold asks for the pump ON, one
\* below pump_duty_off_threshold asks for it OFF, and a duty cycle from the
\* OFF threshold to the ON threshold, both included, asks for no change: in
\* the deadband the pump keeps its state.
C37_DeadbandKeepsPumpState ==
    calc.fn = "regulate" =>
        /\ calc.output > pump_duty_on_threshold =>
              calc.desired = (IF calc.before.pump_state THEN "keep" ELSE "ON")
        /\ calc.output < pump_duty_off_threshold =>
              calc.desired = (IF calc.before.pump_state THEN "OFF" ELSE "keep")
        /\ (pump_duty_off_threshold <= calc.output
              /\ calc.output <= pump_duty_on_threshold) =>
              /\ calc.desired = "keep"
              /\ calc.zone.pump_state = calc.before.pump_state
        /\ calc.zone.pump_state # calc.before.pump_state =>
              calc.desired = (IF calc.zone.pump_state THEN "ON" ELSE "OFF")

\* a duty cycle equal to the ON threshold left a pump OFF that the pump
\* protection would have let switch ON
C37_Witness ==
    /\ calc.fn = "regulate"
    /\ calc.output = pump_duty_on_threshold
    /\ ~calc.before.pump_state
    /\ CanChangePumpState(calc.before, TRUE, calc.time)
    /\ ~calc.zone.pump_state

\* a duty cycle equal to the OFF threshold left a pump ON that could have
\* been switched OFF
C37_OffThresholdWitness ==
    /\ calc.fn = "regulate"
    /\ calc.output = pump_duty_off_threshold
    /\ calc.before.pump_state
    /\ CanChangePumpState(calc.before, FALSE, calc.time)
    /\ calc.zone.pump_state

\* duty cycles outside the deadband switched the pump
C37_SwitchWitness ==
    /\ calc.fn = "regulate"
    /\ calc.output = pump_duty_on_threshold + 1
    /\ ~calc.before.pump_state
    /\ calc.zone.pump_state

\* C38: every control tick, completed or ended by an exception, starts the
\* one next control Timer, due control_interval later; with the Timer thread
\* scheduled fairly a tick that is due runs, and the loop goes on to the end
\* of the run.
C38_ControlLoopNeverStops ==
    /\ [][last' = "tick" => control_timer' = now + control_interval]_vars
    /\ [](now >= control_timer => <>(now < control_timer))
    /\ <>(now >= MaxMinutes /\ now < control_timer)

\* a tick in which a zone raised has started the next Timer, after earlier
\* ticks
C38_Witness ==
    /\ last = "tick"
    /\ tick.raised # NoZone
    /\ now >= 2 * control_interval
    /\ control_timer = now + control_interval

====
